---- MODULE Spec2Model ----
(***************************************************************************)
(* RequiredAI: the draft -> evaluate -> revise loop of                     *)
(* RequiredAISystem.chat_completions, the live-session table response_map  *)
(* and the two client operations on it (status, stop).                     *)
(*                                                                         *)
(* Python dicts are functions over their present keys, so that             *)
(* "key in dict" is k \in DOMAIN d.  response_map holds references: it     *)
(* maps a key to the call whose response object it refers to.              *)
(***************************************************************************)
EXTENDS Integers, Sequences, FiniteSets, TLC

\* ---- bounds ------------------------------------------------------------
\* most provider generation calls (initial drafts + revisions) over all sessions
MaxDrafts == 3
\* longest requirement list a call is given
MaxReqs == 2

\* the completion calls the transport runs concurrently, and the keys clients use
Calls == {"c1", "c2"}
\* the calls are named in their order of arrival
Earlier(c) == IF c = "c2" THEN {"c1"} ELSE {}
Keys == {"abc"}
None == "None"

VARIABLES
    pc,                   \* position of each call in chat_completions
    outcome,              \* "none" while running, then "returned" or "raised"
    key,                  \* the key argument of each call
    requirements,         \* the requirements argument of each call
    response,             \* the response object each call builds
    response_map,         \* RequiredAISystem.response_map: key -> response object
    req_index,            \* position of the for loop over requirements
    all_requirements_met, \* the loop flag of the same name
    revision_input,       \* local revision_input while a revision is generated
    provider_calls,       \* history: provider calls started, with their result
    eval_calls,           \* history: requirement evaluations started, with result
    stop_mark,            \* history: where the call was when should_stop was set
    lists,                \* the list objects of each call: the caller's messages, chat
    request               \* the payload of a request that came by the server route

\* the variables of the orchestrator
ovars == <<pc, outcome, key, requirements, response, response_map, req_index,
           all_requirements_met, revision_input, provider_calls, eval_calls,
           stop_mark, lists, request>>

VARIABLES
    fb_current_index,     \* FallbackProvider.current_index
    fb_pc,                \* position of each complete call on the Fallback provider
    fb_start_index,       \* local start_index of each complete call
    fb_offset,            \* the outer loop variable offset
    fb_attempt,           \* the inner loop variable attempt
    fb_attempts,          \* the list attempts of each complete call
    fb_result,            \* what complete returned or raised
    fb_sleeps,            \* history: the attempts made when each delay was taken
    fb_last_accepted,     \* history: position of the latest accepted model
    fb_seen               \* history: fb_last_accepted when the call began

fvars == <<fb_current_index, fb_pc, fb_start_index, fb_offset, fb_attempt,
           fb_attempts, fb_result, fb_sleeps, fb_last_accepted, fb_seen>>

VARIABLES
    model_configs,        \* ModelManager.model_configs: name -> configuration
    provider_instances,   \* ModelManager.provider_instances: name -> provider
    reg_pc,               \* position of each thread in get_provider
    reg_local,            \* the locals of get_provider in each thread
    add_pc,               \* position of the add_model route
    constructed,          \* history: the providers constructed, in order
    returned,             \* history: what the get_provider calls returned
    completed_adds        \* history: the add_model requests that have finished

rvars == <<model_configs, provider_instances, reg_pc, reg_local, add_pc,
           constructed, returned, completed_adds>>

VARIABLES
    default_params,       \* provider.config.default_params
    params,               \* the params argument of complete_with_model
    provider_params,      \* what provider.complete was given, once called
    params_before         \* history: both maps as they were before the call

mvars == <<default_params, params, provider_params, params_before>>

VARIABLES
    req_call,             \* a requirement operation: its receiver and arguments
    req_result,           \* what the operation returned or raised
    select_call,          \* an InputConfig and the messages select is given
    select_result,        \* the list select returned
    class_decl,           \* a chain of class declarations given to json_dataclass
    class_result          \* the classes made from them

\* the variables of the operations taken one call at a time
pvars == <<req_call, req_result, select_call, select_result, class_decl,
           class_result>>

\* the variables of the other components
others == <<fvars, rvars, mvars, pvars>>

vars == <<ovars, others>>

\* ---- dicts ---------------------------------------------------------------
Put(d, k, v) == [x \in DOMAIN d \cup {k} |-> IF x = k THEN v ELSE d[x]]

Del(d, k) == [x \in DOMAIN d \ {k} |-> d[x]]

Get(d, k, default) == IF k \in DOMAIN d THEN d[k] ELSE default

EmptyDict == [x \in {} |-> None]

Last(s) == s[Len(s)]

\* no stop request has reached the call yet
NoMark == [started |-> -1, during |-> None]

\* ---- requirements and drafts ----------------------------------------------
\* the i-th requirement of a list: odd ones name no revision model
Req(i) == [name |-> "req" \o ToString(i),
           revision_model |-> IF i % 2 = 0 THEN "R" ELSE None,
           prompt |-> "prompt" \o ToString(i)]

ReqList(n) == [i \in 1..n |-> Req(i)]

\* what a provider returns for the n-th generation call of a session
Draft(n) == [id |-> "id" \o ToString(n),
             choices |-> <<[message |-> [role |-> "assistant",
                                          content |-> "draft" \o ToString(n)],
                            finish_reason |-> "stop"]>>]

\* the caller's conversation
Messages == <<[role |-> "system", content |-> "rules"],
              [role |-> "user", content |-> "question"]>>

\* ---- helpers.py -----------------------------------------------------------
get_id(r) == Get(r, "id", "Value Error: no id")

get_msg(r) ==
    LET choices == Get(r, "choices", <<>>)
    IN  IF Len(choices) = 0 THEN ""
        ELSE Get(choices[1], "message", "Value Error: no message object")

get_finish_reason(r) ==
    LET choices == Get(r, "choices", <<>>)
    IN  IF Len(choices) = 0 THEN ""
        ELSE Get(choices[1], "finish_reason", "Value Error: no finish_reason")

\* ---- nested helpers of chat_completions -----------------------------------
\* response['choices'][0] is the field choice
NewResponse(model_name) ==
    [object |-> "chat.completion", model |-> model_name,
     choice |-> [prospects |-> <<>>], done |-> FALSE]

\* errors(): the guard looks for 'errors' in the response, not in the choice,
\* so the list is created anew on every use
errors(r) ==
    IF "errors" \notin DOMAIN r
    THEN Put(r, "choice", Put(r.choice, "errors", <<>>))
    ELSE r

\* AppendError with the record dropped: the list is created and left empty
AppendErrorLost(r, e) == errors(r)

AppendError(r, e) ==
    LET r1 == errors(r)
    IN  Put(r1, "choice", Put(r1.choice, "errors", Append(r1.choice.errors, e)))

SetFinishReason(r, reason) ==
    Put(r, "choice", Put(r.choice, "finish_reason", reason))

add_eval_log_to(prospect) == Put(prospect, "requirements_evaluation_log", <<>>)

\* eval_log never rebound: every entry goes to the log of the first prospect
AppendEvalLogToFirst(r, entry) ==
    LET ps == r.choice.prospects
        p1 == Put(ps[1], "requirements_evaluation_log",
                  Append(ps[1].requirements_evaluation_log, entry))
    IN  Put(r, "choice", Put(r.choice, "prospects", [ps EXCEPT ![1] = p1]))

\* the local eval_log is the log of the last prospect
AppendEvalLog(r, entry) ==
    LET ps == r.choice.prospects
        p  == Last(ps)
        p1 == Put(p, "requirements_evaluation_log",
                  Append(p.requirements_evaluation_log, entry))
    IN  Put(r, "choice", Put(r.choice, "prospects", [ps EXCEPT ![Len(ps)] = p1]))

end_prospects_eval_log(r, requirements_met, last_element_fields) ==
    AppendEvalLog(r, Put(last_element_fields, "requirements_met", requirements_met))

\* set_choice taking effect for the first prospect only
set_choice_once(r, prospect) ==
    IF "id" \in DOMAIN r.choice THEN r
    ELSE Put(r, "choice",
             Put(Put(Put(r.choice, "id", get_id(prospect)),
                     "message", get_msg(prospect)),
                 "finish_reason", get_finish_reason(prospect)))

set_choice(r, prospect) ==
    LET c1 == Put(r.choice, "id", get_id(prospect))
        c2 == Put(c1, "message", get_msg(prospect))
        c3 == Put(c2, "finish_reason", get_finish_reason(prospect))
    IN  Put(r, "choice", c3)

\* should_stop with a limit of the server's own: two prospects end the session
should_stop_at_limit(r) ==
    Get(r, "should_stop", FALSE) \/ Len(r.choice.prospects) >= 2

\* should_stop never read
should_stop_ignored(r) == FALSE

\* should_stop read only while the first draft is the current prospect
should_stop_first_round(r) ==
    Get(r, "should_stop", FALSE) /\ Len(r.choice.prospects) <= 1

should_stop(r) == Get(r, "should_stop", FALSE)

\* stop(): the check, and the finish_reason it sets when the flag is up
stop(r) == IF should_stop(r) THEN SetFinishReason(r, "Stopped by client") ELSE r

\* the response entered in the table whether or not a key was given
RegisterAlways(map, k, c) == Put(map, k, c)

\* "if key: self.response_map[key] = response"
Register(map, k, c) == IF k # None THEN Put(map, k, c) ELSE map

\* "if key in self.response_map: del self.response_map[key]"
RemoveKey(map, k) == IF k \in DOMAIN map THEN Del(map, k) ELSE map

\* a new prospect enters the history: lines 89-91 and 217-219
AddProspect(r, draft) ==
    LET p  == add_eval_log_to(draft)
        r1 == Put(r, "choice", Put(r.choice, "prospects",
                                   Append(r.choice.prospects, p)))
    IN  set_choice(r1, p)

revise_prompt(req) ==
    [role |-> "user", content |-> <<"revise to meet", req.prompt>>]

\* ---- state ----------------------------------------------------------------
\* the complete calls that run on the one Fallback provider, in order of arrival
FbCalls == {"f1", "f2"}

\* FallbackProvider.__init__ (line 15), before any complete call
FallbackInit ==
    /\ fb_current_index = 0
    /\ fb_pc = [f \in FbCalls |-> "idle"]
    /\ fb_start_index = [f \in FbCalls |-> 0]
    /\ fb_offset = [f \in FbCalls |-> 0]
    /\ fb_attempt = [f \in FbCalls |-> 0]
    /\ fb_attempts = [f \in FbCalls |-> <<>>]
    /\ fb_result = [f \in FbCalls |-> EmptyDict]
    /\ fb_sleeps = [f \in FbCalls |-> <<>>]
    /\ fb_last_accepted = -1
    /\ fb_seen = [f \in FbCalls |-> -1]

\* the threads that call get_provider
Threads == {"t1", "t2"}

\* a configuration registered under a name: version counts its replacements
Config(name, version) == [name |-> name, provider |-> "kind", version |-> version]

\* ModelManager.__init__ (lines 26-27) with one model configured
RegistryInit ==
    /\ model_configs = [n \in {"N"} |-> Config("N", 1)]
    /\ provider_instances = EmptyDict
    /\ reg_pc = [t \in Threads |-> "idle"]
    /\ reg_local = [t \in Threads |-> EmptyDict]
    /\ add_pc = "idle"
    /\ constructed = <<>>
    /\ returned = <<>>
    /\ completed_adds = 0

\* the parameter names and values of the maps complete_with_model is given
ParamKeys == {"temperature", "max_tokens"}

ParamValues == {1, 2}

ParamDicts == UNION {[K -> ParamValues] : K \in SUBSET ParamKeys}

\* no complete_with_model call under way: both maps are empty
MergeIdle ==
    /\ default_params = EmptyDict
    /\ params = EmptyDict
    /\ provider_params = <<>>
    /\ params_before = EmptyDict

\* no requirement, select or class operation under way
PureIdle ==
    /\ req_call = EmptyDict
    /\ req_result = EmptyDict
    /\ select_call = EmptyDict
    /\ select_result = EmptyDict
    /\ class_decl = EmptyDict
    /\ class_result = EmptyDict

OrchestratorInit ==
    /\ pc = [c \in Calls |-> "idle"]
    /\ outcome = [c \in Calls |-> "none"]
    /\ key = [c \in Calls |-> None]
    /\ requirements = [c \in Calls |-> <<>>]
    /\ response = [c \in Calls |-> EmptyDict]
    /\ response_map = EmptyDict
    /\ req_index = [c \in Calls |-> 0]
    /\ all_requirements_met = [c \in Calls |-> FALSE]
    /\ revision_input = [c \in Calls |-> EmptyDict]
    /\ provider_calls = [c \in Calls |-> <<>>]
    /\ eval_calls = [c \in Calls |-> <<>>]
    /\ stop_mark = [c \in Calls |-> NoMark]
    /\ lists = [c \in Calls |-> EmptyDict]
    /\ request = [c \in Calls |-> EmptyDict]

\* everything but the operations taken one call at a time
SystemInit == OrchestratorInit /\ FallbackInit /\ RegistryInit /\ MergeIdle

Init == SystemInit /\ PureIdle

InFlight(c) ==
    pc[c] \in {"GENERATING_INITIAL", "EVALUATING", "IN_EVALUATE", "AFTER_LOOP", "REVISING"}

Terminal(c) == pc[c] \in {"DONE", "STOPPED", "ERRORED"}

Started(c) == Len(provider_calls[c]) + Len(eval_calls[c])

RECURSIVE DraftsOf(_)
DraftsOf(S) ==
    IF S = {} THEN 0
    ELSE LET c == CHOOSE x \in S : TRUE
         IN  Len(provider_calls[c]) + DraftsOf(S \ {c})

\* the model stops starting provider calls at MaxDrafts
DraftBudget == DraftsOf(Calls) < MaxDrafts

\* ---- InputConfig.select (ModelConfig.py lines 56-179) ------------------------
\* longest conversation select is given
MaxMessages == 5

\* Python values of more than one type are records with their kind:
\* None, an int, a (start, end) tuple, a list, a dict
PyNone == [kind |-> "None"]

PyInt(i) == [kind |-> "int", value |-> i]

PyPair(start, end) == [kind |-> "tuple", start |-> start, end |-> end]

PyList(items) == [kind |-> "list", items |-> items]

PyDict(map) == [kind |-> "dict", map |-> map]

\* the truth value Python gives the object in "if x" and "not x"
truthy(x) ==
    CASE x.kind = "None" -> FALSE
      [] x.kind = "int" -> x.value # 0
      [] x.kind = "tuple" -> TRUE
      [] x.kind = "list" -> x.items # <<>>
      [] x.kind = "dict" -> DOMAIN x.map # {}

\* lines 81-85 and 98-99: a list of names is the dict that maps each to True
as_filter_dict(filter) ==
    IF filter.kind = "list"
    THEN [k \in {filter.items[i] : i \in 1..Len(filter.items)} |-> TRUE]
    ELSE filter.map

\* the role filter with every map read as an inclusion set
role_filtered_listed_only(messages, filter_roles) ==
    IF ~truthy(filter_roles) THEN messages
    ELSE LET filter == as_filter_dict(filter_roles)
             keep(message) == Get(message, "role", None) \in DOMAIN filter
         IN  SelectSeq(messages, keep)

\* lines 79-94
role_filtered(messages, filter_roles) ==
    IF ~truthy(filter_roles) THEN messages
    ELSE LET filter == as_filter_dict(filter_roles)
             all_roles_include == \A k \in DOMAIN filter : filter[k]
             keep(message) ==
                LET role == Get(message, "role", None)
                IN  IF all_roles_include THEN role \in DOMAIN filter
                    ELSE Get(filter, role, TRUE)
         IN  SelectSeq(messages, keep)

\* lines 112-117: some tag of the message is listed
RECURSIVE any_listed(_, _)
any_listed(tags, filter) ==
    IF tags = <<>> THEN FALSE
    ELSE IF Head(tags) \in DOMAIN filter THEN TRUE
    ELSE any_listed(Tail(tags), filter)

\* lines 118-126: a tag mapped to True includes, the first mapped to False
\* excludes and ends the loop
RECURSIVE some_included(_, _, _)
some_included(tags, filter, include_msg) ==
    IF tags = <<>> THEN include_msg
    ELSE LET tag == Head(tags)
         IN  IF tag \in DOMAIN filter /\ ~filter[tag] THEN FALSE
             ELSE some_included(Tail(tags), filter,
                                include_msg \/ (tag \in DOMAIN filter /\ filter[tag]))

\* lines 127-133: the first tag mapped to False excludes
RECURSIVE none_excluded(_, _)
none_excluded(tags, filter) ==
    IF tags = <<>> THEN TRUE
    ELSE IF ~Get(filter, Head(tags), TRUE) THEN FALSE
    ELSE none_excluded(Tail(tags), filter)

\* include_msg with the untagged messages always kept
include_msg_untagged_kept(message, filter) ==
    LET tags == Get(message, "tags", <<>>)
        some_tags_include == \E k \in DOMAIN filter : filter[k]
        all_tags_include == \A k \in DOMAIN filter : filter[k]
    IN  IF tags = <<>> THEN TRUE
        ELSE IF all_tags_include THEN any_listed(tags, filter)
        ELSE IF some_tags_include THEN some_included(tags, filter, FALSE)
        ELSE none_excluded(tags, filter)

\* lines 100-133: whether the tags of the message let it through
include_msg(message, filter) ==
    LET tags == Get(message, "tags", <<>>)
        some_tags_include == \E k \in DOMAIN filter : filter[k]
        all_tags_include == \A k \in DOMAIN filter : filter[k]
    IN  IF tags = <<>>
        THEN IF all_tags_include THEN None \in DOMAIN filter
             ELSE Get(filter, None, TRUE)
        ELSE IF all_tags_include THEN any_listed(tags, filter)
        ELSE IF some_tags_include THEN some_included(tags, filter, FALSE)
        ELSE none_excluded(tags, filter)

\* lines 96-137
tag_filtered(messages, filter_tags) ==
    IF ~truthy(filter_tags) THEN messages
    ELSE LET filter == as_filter_dict(filter_tags)
             keep(message) == include_msg(message, filter)
         IN  SelectSeq(messages, keep)

\* lines 146-147, 156-157: a negative index counts from the end
resolve(i, conv_len) == IF i < 0 THEN conv_len + i ELSE i

\* walk with the step always +1: a backward range yields nothing
RECURSIVE walk_forward_only(_, _, _, _)
walk_forward_only(messages, i, end_idx, step) ==
    IF i > end_idx THEN <<>>
    ELSE (IF 0 <= i /\ i < Len(messages) THEN <<messages[i + 1]>> ELSE <<>>)
         \o walk_forward_only(messages, i + 1, end_idx, step)

\* lines 160-162 and 164-166: the loop over range(start, end +- 1, step)
RECURSIVE walk(_, _, _, _)
walk(messages, i, end_idx, step) ==
    IF (step > 0 /\ i > end_idx) \/ (step < 0 /\ i < end_idx) THEN <<>>
    ELSE (IF 0 <= i /\ i < Len(messages) THEN <<messages[i + 1]>> ELSE <<>>)
         \o walk(messages, i + step, end_idx, step)

\* lines 139-167; a literal message is a dict
inner_get_messages(messages, index_msg_or_range) ==
    LET conv_len == Len(messages)
        x == index_msg_or_range
    IN  CASE x.kind = "int" ->
              LET at == resolve(x.value, conv_len)
              IN  IF 0 <= at /\ at < conv_len THEN <<messages[at + 1]>> ELSE <<>>
          [] x.kind = "dict" -> <<x.map>>
          [] x.kind = "tuple" ->
              LET start_idx == resolve(x.start, conv_len)
                  end_idx == resolve(x.end, conv_len)
              IN  walk(messages, start_idx, end_idx,
                       IF start_idx <= end_idx THEN 1 ELSE -1)
          [] OTHER -> <<>>

RECURSIVE extend_all(_, _)
extend_all(messages, items) ==
    IF items = <<>> THEN <<>>
    ELSE inner_get_messages(messages, Head(items))
         \o extend_all(messages, Tail(items))

\* lines 169-179
included(messages, messages_to_include) ==
    IF ~truthy(messages_to_include) THEN messages
    ELSE IF messages_to_include.kind = "list"
    THEN extend_all(messages, messages_to_include.items)
    ELSE inner_get_messages(messages, messages_to_include)

\* lines 79-179
select(config, messages) ==
    included(tag_filtered(role_filtered(messages, config.filter_roles),
                          config.filter_tags),
             config.messages_to_include)

\* a conversation of n messages told apart by their content
Conversation_n(n) ==
    [i \in 1..n |-> [role |-> IF i % 2 = 1 THEN "user" ELSE "assistant",
                     content |-> "m" \o ToString(i - 1)]]

\* the indexes a selection is given: some beyond both ends
Indexes == (0 - MaxMessages - 2)..(MaxMessages + 1)

\* selections of one index or one pair, bare and as the one item of a list,
\* over an unfiltered conversation
IndexCalls ==
    [messages : {Conversation_n(n) : n \in 0..MaxMessages},
     config : [filter_roles : {PyNone}, filter_tags : {PyNone},
               messages_to_include :
                  {PyInt(i) : i \in Indexes}
                  \cup {PyList(<<PyInt(i)>>) : i \in Indexes}
                  \cup {PyPair(i, j) : i, j \in Indexes}
                  \cup {PyList(<<PyPair(i, j)>>) : i, j \in Indexes}]]

Roles == {"system", "user", "assistant"}

\* conversations of every length with every role in every place
RoleConversations ==
    UNION {{[i \in 1..n |-> [role |-> f[i], content |-> "m" \o ToString(i - 1)]] :
               f \in [1..n -> Roles]} : n \in 0..MaxMessages}

\* the role filters: lists and maps that name at least one role
RoleFilters ==
    {PyList(<<"user">>), PyList(<<"system", "user">>),
     PyList(<<"assistant", "system", "user">>)}
    \cup {PyDict(m) : m \in UNION {[K -> BOOLEAN] : K \in SUBSET Roles \ {{}}}}

\* a role filter alone
RoleCalls ==
    [messages : RoleConversations,
     config : [filter_roles : RoleFilters, filter_tags : {PyNone},
               messages_to_include : {PyNone}]]

Tags == {"t1", "t2", "t3"}

\* the tags of a message: none, one, or two in either order
TagLists ==
    {<<>>} \cup {<<t>> : t \in Tags}
    \cup {<<t, u>> : t \in Tags, u \in Tags}

TaggedMessage(tags, content) ==
    IF tags = <<>> THEN [role |-> "user", content |-> content]
    ELSE [role |-> "user", content |-> content, tags |-> tags]

\* conversations of one and two messages with every tagging
TagConversations ==
    {<<TaggedMessage(t, "m0")>> : t \in TagLists}
    \cup {<<TaggedMessage(t, "m0"), TaggedMessage(u, "m1")>> :
             t \in TagLists, u \in TagLists}

\* the tag filters: lists and maps over two of the tags and the sentinel None
TagFilters ==
    {PyList(<<"t1">>), PyList(<<"t1", "t2">>), PyList(<<None, "t1">>)}
    \cup {PyDict(m) :
             m \in UNION {[K -> BOOLEAN] : K \in SUBSET {"t1", "t2", None} \ {{}}}}

\* a tag filter alone
TagCalls ==
    [messages : TagConversations,
     config : [filter_roles : {PyNone}, filter_tags : TagFilters,
               messages_to_include : {PyNone}]]

SelectInit ==
    /\ SystemInit
    /\ select_call \in IndexCalls \cup RoleCalls \cup TagCalls
    /\ select_result = EmptyDict
    /\ req_call = EmptyDict /\ req_result = EmptyDict
    /\ class_decl = EmptyDict /\ class_result = EmptyDict

InputConfig_select ==
    /\ select_result = EmptyDict
    /\ select_call # EmptyDict
    /\ select_result' = [returned |-> select(select_call.config, select_call.messages)]
    /\ UNCHANGED <<select_call, req_call, req_result, class_decl, class_result>>
    /\ UNCHANGED <<ovars, fvars, rvars, mvars>>

SelectNext == InputConfig_select

SelectSpec == SelectInit /\ [][SelectNext]_vars

\* ---- chat_completions -----------------------------------------------------
\* Failed with the verdict ignored: a fail does not leave the loop
FailedIgnored(passed) == FALSE

\* RequirementResult.__bool__ and the test "if not req_evaluation"
Failed(passed) == ~passed

\* RequirementResult.construct: the evaluation_log of a verdict
evaluation_log(req, passed) ==
    [requirement_name |-> req.name, passed |-> passed]

\* the revision model always the target model
corrector_is_target(failed_req, model_name) == model_name

\* the revision model: the failed requirement's, else the target model
corrector_model_name(failed_req, model_name) ==
    IF failed_req.revision_model # None THEN failed_req.revision_model
    ELSE model_name

\* ---- the list objects of a call -------------------------------------------
\* the input_config of the registered models: the target model M reads the
\* user's turns only, the revision model R has no input_config
input_config(model_name) ==
    IF model_name = "M"
    THEN [kind |-> "InputConfig",
          config |-> [filter_roles |-> PyList(<<"user">>), filter_tags |-> PyNone,
                      messages_to_include |-> PyNone]]
    ELSE PyNone

\* InputConfig.select_with (ModelConfig.py lines 43-54): with no input_config
\* the list itself is returned, with one its selection
select_with(messages, context_configs) ==
    CASE context_configs.kind = "None" -> messages
      [] context_configs.kind = "InputConfig" ->
            select(context_configs.config, messages)

\* line 123: chat = list(messages), a new list holding the same elements
CopyChat(h) == Put(h, "chat", h.messages)

\* Conversation working on the caller's list: chat is the list itself and
\* the draft is appended to it
ConversationInPlace(h, prospect) ==
    LET grown == Append(h.messages, get_msg(prospect))
    IN  Put(Put(Put(h, "messages", grown), "chat", grown), "conversation", grown)

\* line 128: conversation = chat + [get_msg(prospect)], a new list; its
\* operands stay as they are
Conversation(h, prospect) ==
    Put(h, "conversation", h.chat \o <<get_msg(prospect)>>)

\* lines 188, 192: the conversation of the revision model, then the same with
\* the correction turn, each a new list
RevisionConversation(h, prospect, revision_prompt, context_configs) ==
    LET conversation == select_with(h.chat, context_configs) \o <<get_msg(prospect)>>
    IN  Put(Put(h, "conversation", conversation),
            "revision_conversation", conversation \o <<revision_prompt>>)

\* ---- the completions route -------------------------------------------------
\* a response in the format chat_completions returns, with one prospect
PriorResponse ==
    [object |-> "chat.completion", model |-> "M",
     choice |-> [prospects |-> <<[id |-> "id0",
                                  choices |-> <<[message |-> [role |-> "assistant",
                                                               content |-> "draft0"],
                                                 finish_reason |-> "stop"]>>]>>],
     done |-> FALSE]

\* the payloads a client posts: with and without a response to resume from
Payloads == {[model |-> "M"], [model |-> "M", initial_response |-> PriorResponse]}

\* server.py lines 51-66: the route reads the payload and calls
\* chat_completions with initial_response as a sixth argument, None when the
\* payload has none.  chat_completions takes five: the call raises TypeError
\* before its first line runs.
chat_completions_route(c, data) ==
    /\ pc[c] = "idle"
    /\ outcome[c] = "none"
    /\ \A d \in Earlier(c) : pc[d] # "idle" \/ outcome[d] # "none"
    /\ request' = [request EXCEPT ![c] = data]
    /\ outcome' = [outcome EXCEPT ![c] = "raised"]
    /\ UNCHANGED others
    /\ UNCHANGED <<pc, key, requirements, response, response_map, req_index,
                   all_requirements_met, revision_input, provider_calls,
                   eval_calls, stop_mark, lists>>

\* lines 27-52: the response is built, registered under the key when one is
\* given, and the provider is called for the first draft.  A key is used by
\* one call at a time (the callers' contract).
Start(c, n, k) ==
    /\ pc[c] = "idle"
    /\ outcome[c] = "none"
    /\ \A d \in Earlier(c) : pc[d] # "idle" \/ outcome[d] # "none"
    /\ DraftBudget
    /\ k # None => \A d \in Calls : InFlight(d) => key[d] # k
    /\ key' = [key EXCEPT ![c] = k]
    /\ requirements' = [requirements EXCEPT ![c] = ReqList(n)]
    /\ response' = [response EXCEPT ![c] = NewResponse("M")]
    /\ response_map' = Register(response_map, k, c)
    /\ provider_calls' = [provider_calls EXCEPT ![c] =
            Append(@, [kind |-> "initial", model_name |-> "M",
                       messages |-> Messages, result |-> "pending"])]
    /\ pc' = [pc EXCEPT ![c] = "GENERATING_INITIAL"]
    /\ lists' = [lists EXCEPT ![c] = [messages |-> Messages]]
    /\ UNCHANGED <<others, request>>
    /\ UNCHANGED <<outcome, req_index, all_requirements_met, revision_input,
                   eval_calls, stop_mark>>

SetResult(calls, result) == [calls EXCEPT ![Len(calls)].result = result]

\* lines 52, 89-91, 123-133: the first draft arrives and the loop is entered
InitialDraft(c) ==
    /\ pc[c] = "GENERATING_INITIAL"
    /\ response' = [response EXCEPT ![c] = AddProspect(@, Draft(1))]
    /\ provider_calls' = [provider_calls EXCEPT ![c] = SetResult(@, "ok")]
    /\ all_requirements_met' = [all_requirements_met EXCEPT ![c] = TRUE]
    /\ req_index' = [req_index EXCEPT ![c] = 1]
    /\ pc' = [pc EXCEPT ![c] = "EVALUATING"]
    /\ lists' = [lists EXCEPT ![c] = Conversation(CopyChat(@), Draft(1))]
    /\ UNCHANGED <<others, request>>
    /\ UNCHANGED <<outcome, key, requirements, response_map, revision_input,
                   eval_calls, stop_mark>>

\* lines 53-60: the provider throws.  errors() runs, then the handler reads
\* the local prospective_response, which was never bound: UnboundLocalError
\* leaves chat_completions and nothing is returned.
InitialDraftFails(c) ==
    /\ pc[c] = "GENERATING_INITIAL"
    /\ response' = [response EXCEPT ![c] =
            errors(SetFinishReason(@, "Error generating prospect"))]
    /\ provider_calls' = [provider_calls EXCEPT ![c] = SetResult(@, "raised")]
    /\ pc' = [pc EXCEPT ![c] = "ERRORED"]
    /\ outcome' = [outcome EXCEPT ![c] = "raised"]
    /\ UNCHANGED <<others, lists, request>>
    /\ UNCHANGED <<key, requirements, response_map, req_index,
                   all_requirements_met, revision_input, eval_calls, stop_mark>>

\* MoreRequirements stopping one short of the list
MoreRequirementsButLast(c) == req_index[c] < Len(requirements[c])

MoreRequirements(c) == req_index[c] <= Len(requirements[c])

\* lines 133-140: the checkpoint before a requirement finds should_stop set
StopBeforeRequirement(c) ==
    /\ pc[c] = "EVALUATING"
    /\ MoreRequirements(c)
    /\ should_stop(response[c])
    /\ response' = [response EXCEPT ![c] =
            end_prospects_eval_log(stop(@), FALSE,
                                   [checked_all_requirements |-> FALSE])]
    /\ response_map' = RemoveKey(response_map, key[c])
    /\ pc' = [pc EXCEPT ![c] = "STOPPED"]
    /\ outcome' = [outcome EXCEPT ![c] = "returned"]
    /\ UNCHANGED <<others, lists, request>>
    /\ UNCHANGED <<key, requirements, req_index, all_requirements_met,
                   revision_input, provider_calls, eval_calls, stop_mark>>

\* lines 134, 142-144: the checkpoint is passed and req.evaluate is called;
\* the checkpoint and the call it guards are one step
BeginEvaluate(c) ==
    /\ pc[c] = "EVALUATING"
    /\ MoreRequirements(c)
    /\ ~should_stop(response[c])
    /\ eval_calls' = [eval_calls EXCEPT ![c] =
            Append(@, [req |-> req_index[c],
                       prospect |-> Len(response[c].choice.prospects),
                       result |-> "pending"])]
    /\ pc' = [pc EXCEPT ![c] = "IN_EVALUATE"]
    /\ UNCHANGED <<others, lists, request>>
    /\ UNCHANGED <<outcome, key, requirements, response, response_map, req_index,
                   all_requirements_met, revision_input, provider_calls, stop_mark>>

\* lines 144-150: evaluate returns a verdict; a fail leaves the for loop
EvaluateReturns(c, passed) ==
    /\ pc[c] = "IN_EVALUATE"
    /\ response' = [response EXCEPT ![c] =
            AppendEvalLog(@, evaluation_log(requirements[c][req_index[c]], passed))]
    /\ eval_calls' = [eval_calls EXCEPT ![c] =
            SetResult(@, IF passed THEN "pass" ELSE "fail")]
    /\ IF Failed(passed)
       THEN /\ all_requirements_met' = [all_requirements_met EXCEPT ![c] = FALSE]
            /\ pc' = [pc EXCEPT ![c] = "AFTER_LOOP"]
            /\ UNCHANGED req_index
       ELSE /\ req_index' = [req_index EXCEPT ![c] = @ + 1]
            /\ pc' = [pc EXCEPT ![c] = "EVALUATING"]
            /\ UNCHANGED all_requirements_met
    /\ UNCHANGED <<others, lists, request>>
    /\ UNCHANGED <<outcome, key, requirements, response_map, revision_input,
                   provider_calls, stop_mark>>

\* EvaluationError recording the exception as an ordinary failed check
EvaluationErrorAsFail(r, req) ==
    SetFinishReason(AppendEvalLog(r, evaluation_log(req, FALSE)),
                    "Error evaluating requirement")

\* what the handler of lines 151-158 leaves in the response
EvaluationError(r, req) ==
    SetFinishReason(
        AppendError(r, [exception_type |-> "Exception", requirement |-> req.name]),
        "Error evaluating requirement")

\* lines 151-158: evaluate throws
EvaluateRaises(c) ==
    /\ pc[c] = "IN_EVALUATE"
    /\ response' = [response EXCEPT ![c] =
            EvaluationError(@, requirements[c][req_index[c]])]
    /\ eval_calls' = [eval_calls EXCEPT ![c] = SetResult(@, "raised")]
    /\ pc' = [pc EXCEPT ![c] = "ERRORED"]
    /\ outcome' = [outcome EXCEPT ![c] = "returned"]
    /\ UNCHANGED <<others, lists, request>>
    /\ UNCHANGED <<key, requirements, response_map, req_index,
                   all_requirements_met, revision_input, provider_calls, stop_mark>>

\* the for loop ran out of requirements
LoopExhausted(c) ==
    /\ pc[c] = "EVALUATING"
    /\ ~MoreRequirements(c)
    /\ pc' = [pc EXCEPT ![c] = "AFTER_LOOP"]
    /\ UNCHANGED <<others, lists, request>>
    /\ UNCHANGED <<outcome, key, requirements, response, response_map, req_index,
                   all_requirements_met, revision_input, provider_calls,
                   eval_calls, stop_mark>>

\* lines 161-165, 221-224: all requirements met
Finish(c) ==
    /\ pc[c] = "AFTER_LOOP"
    /\ all_requirements_met[c]
    /\ response' = [response EXCEPT ![c] =
            Put(end_prospects_eval_log(@, TRUE, [checked_all_requirements |-> TRUE]),
                "done", TRUE)]
    /\ response_map' = RemoveKey(response_map, key[c])
    /\ pc' = [pc EXCEPT ![c] = "DONE"]
    /\ outcome' = [outcome EXCEPT ![c] = "returned"]
    /\ UNCHANGED <<others, lists, request>>
    /\ UNCHANGED <<key, requirements, req_index, all_requirements_met,
                   revision_input, provider_calls, eval_calls, stop_mark>>

\* lines 167-170: the checkpoint before a revision finds should_stop set
StopBeforeRevision(c) ==
    /\ pc[c] = "AFTER_LOOP"
    /\ ~all_requirements_met[c]
    /\ should_stop(response[c])
    /\ response' = [response EXCEPT ![c] = stop(@)]
    /\ response_map' = RemoveKey(response_map, key[c])
    /\ pc' = [pc EXCEPT ![c] = "STOPPED"]
    /\ outcome' = [outcome EXCEPT ![c] = "returned"]
    /\ UNCHANGED <<others, lists, request>>
    /\ UNCHANGED <<key, requirements, req_index, all_requirements_met,
                   revision_input, provider_calls, eval_calls, stop_mark>>

\* lines 172-197: the input of the revision call
RevisionInput(failed_req, revision_conversation) ==
    [model_name |-> corrector_model_name(failed_req, "M"),
     messages |-> revision_conversation,
     params |-> EmptyDict]

\* lines 167-199: the checkpoint is passed and the revision is dispatched
DispatchRevision(c) ==
    /\ pc[c] = "AFTER_LOOP"
    /\ ~all_requirements_met[c]
    /\ ~should_stop(response[c])
    /\ DraftBudget
    /\ LET failed_req == requirements[c][req_index[c]]
           h == RevisionConversation(lists[c], Last(response[c].choice.prospects),
                                     revise_prompt(failed_req),
                                     input_config(corrector_model_name(failed_req, "M")))
           ri == RevisionInput(failed_req, h.revision_conversation)
       IN  /\ lists' = [lists EXCEPT ![c] = h]
           /\ revision_input' = [revision_input EXCEPT ![c] = ri]
           /\ provider_calls' = [provider_calls EXCEPT ![c] =
                 Append(@, [kind |-> "revision", model_name |-> ri.model_name,
                            messages |-> ri.messages, result |-> "pending"])]
    /\ pc' = [pc EXCEPT ![c] = "REVISING"]
    /\ UNCHANGED <<others, request>>
    /\ UNCHANGED <<outcome, key, requirements, response, response_map, req_index,
                   all_requirements_met, eval_calls, stop_mark>>

\* lines 209-219, 125-133: the revision arrives and is the next prospect
RevisionDraft(c) ==
    /\ pc[c] = "REVISING"
    /\ LET new_response == Draft(Len(response[c].choice.prospects) + 1)
           closed == end_prospects_eval_log(response[c], FALSE,
                        [checked_all_requirements |-> TRUE,
                         revision_input |-> revision_input[c],
                         revision_id |-> get_id(new_response)])
       IN  /\ response' = [response EXCEPT ![c] = AddProspect(closed, new_response)]
           /\ lists' = [lists EXCEPT ![c] = Conversation(@, new_response)]
    /\ provider_calls' = [provider_calls EXCEPT ![c] = SetResult(@, "ok")]
    /\ all_requirements_met' = [all_requirements_met EXCEPT ![c] = TRUE]
    /\ req_index' = [req_index EXCEPT ![c] = 1]
    /\ pc' = [pc EXCEPT ![c] = "EVALUATING"]
    /\ UNCHANGED <<others, request>>
    /\ UNCHANGED <<outcome, key, requirements, response_map, revision_input,
                   eval_calls, stop_mark>>

\* what the handler of lines 200-207 leaves in the response
GenerationError(r) ==
    AppendError(SetFinishReason(r, "Error generating prospect"),
                [exception_type |-> "Exception",
                 response |-> Last(r.choice.prospects)])

\* lines 200-207: the revision provider throws
RevisionFails(c) ==
    /\ pc[c] = "REVISING"
    /\ response' = [response EXCEPT ![c] = GenerationError(@)]
    /\ provider_calls' = [provider_calls EXCEPT ![c] = SetResult(@, "raised")]
    /\ pc' = [pc EXCEPT ![c] = "ERRORED"]
    /\ outcome' = [outcome EXCEPT ![c] = "returned"]
    /\ UNCHANGED <<others, lists, request>>
    /\ UNCHANGED <<key, requirements, response_map, req_index,
                   all_requirements_met, revision_input, eval_calls, stop_mark>>

\* ---- the client operations --------------------------------------------------
chat_completion_status(k) ==
    IF k \in DOMAIN response_map THEN response[response_map[k]]
    ELSE [error |-> "key not found"]

stop_chat_completion(k) ==
    /\ k \in DOMAIN response_map
    /\ LET c == response_map[k]
       IN  /\ response' = [response EXCEPT ![c] = Put(@, "should_stop", TRUE)]
           /\ stop_mark' = [stop_mark EXCEPT ![c] =
                 IF @ # NoMark THEN @
                 ELSE [started |-> Started(c), during |-> pc[c]]]
    /\ UNCHANGED <<others, lists, request>>
    /\ UNCHANGED <<pc, outcome, key, requirements, response_map, req_index,
                   all_requirements_met, revision_input, provider_calls, eval_calls>>

\* stop for a key that is not in the table changes nothing
stop_unknown_key(k) ==
    /\ k \notin DOMAIN response_map
    /\ UNCHANGED vars

Next ==
    \/ \E c \in Calls, data \in Payloads : chat_completions_route(c, data)
    \/ \E c \in Calls, n \in 0..MaxReqs, k \in Keys \cup {None} : Start(c, n, k)
    \/ \E c \in Calls : InitialDraft(c)
    \/ \E c \in Calls : InitialDraftFails(c)
    \/ \E c \in Calls : StopBeforeRequirement(c)
    \/ \E c \in Calls : BeginEvaluate(c)
    \/ \E c \in Calls, passed \in BOOLEAN : EvaluateReturns(c, passed)
    \/ \E c \in Calls : EvaluateRaises(c)
    \/ \E c \in Calls : LoopExhausted(c)
    \/ \E c \in Calls : Finish(c)
    \/ \E c \in Calls : StopBeforeRevision(c)
    \/ \E c \in Calls : DispatchRevision(c)
    \/ \E c \in Calls : RevisionDraft(c)
    \/ \E c \in Calls : RevisionFails(c)
    \/ \E k \in Keys : stop_chat_completion(k)
    \/ \E k \in Keys : stop_unknown_key(k)

Spec == Init /\ [][Next]_vars

\* the steps of the call c after it has begun: the provider calls and the
\* evaluations in progress return or raise, and the thread of the call goes on
Proceed(c) ==
    \/ InitialDraft(c)
    \/ InitialDraftFails(c)
    \/ StopBeforeRequirement(c)
    \/ BeginEvaluate(c)
    \/ \E passed \in BOOLEAN : EvaluateReturns(c, passed)
    \/ EvaluateRaises(c)
    \/ LoopExhausted(c)
    \/ Finish(c)
    \/ StopBeforeRevision(c)
    \/ DispatchRevision(c)
    \/ RevisionDraft(c)
    \/ RevisionFails(c)

\* no call in progress waits for ever: what it called returns and the thread
\* takes its next step
LiveSpec == Spec /\ \A c \in Calls : WF_vars(Proceed(c))

\* ---- the Fallback provider (providers/fallback_provider.py) ----------------
\* most attempts over all complete calls
MaxAttempts == 6

FbEarlier(f) == IF f = "f2" THEN {"f1"} ELSE {}

\* config.models, in order; B names a model the registry does not know
FallbackModels == <<[model_name |-> "A", max_retry |-> 2],
                    [model_name |-> "B", max_retry |-> 2],
                    [model_name |-> "C", max_retry |-> 1]>>

RegisteredModels == {"A", "C"}

output_tags == <<"fallback">>

\* what a nested chat_completions call on a registered model can hand back:
\* a done response whose draft came with the given finish_reason, or the
\* response of a session ended by an evaluation error
InnerKinds == {"stop", "error", "Stopped by client", "evaluation error"}

InnerResponse(m, kind) ==
    IF kind = "evaluation error"
    THEN EvaluationError(AddProspect(NewResponse(m), Draft(1)), Req(1))
    ELSE LET draft == [Draft(1) EXCEPT !.choices[1].finish_reason = kind]
         IN  Put(end_prospects_eval_log(AddProspect(NewResponse(m), draft), TRUE,
                                        [checked_all_requirements |-> TRUE]),
                 "done", TRUE)

\* str(e) of what a nested call raises: KeyError(model_name) at system.py
\* line 35 for a name that is not registered, else the UnboundLocalError of a
\* failed first draft
str_e(m) ==
    IF m \in RegisteredModels THEN "cannot access local variable"
    ELSE "'" \o m \o "'"

\* acceptable with the finish_reason not looked at
acceptable_any_finish(r) ==
    /\ Get(r, "done", FALSE)
    /\ "errors" \notin DOMAIN Get(r, "choice", EmptyDict)

\* line 59: the response is valid
acceptable(r) ==
    /\ Get(r, "done", FALSE)
    /\ "errors" \notin DOMAIN Get(r, "choice", EmptyDict)
    /\ Get(Get(r, "choice", EmptyDict), "finish_reason", None)
           \notin {"error", "Stopped by client"}

\* lines 30-39: the response itself gets the tags and a reference to the
\* list attempts of the call f
wrap_response(r, f) ==
    LET msg == Get(r.choice, "message", EmptyDict)
        tagged == Put(msg, "tags", Get(msg, "tags", <<>>) \o output_tags)
    IN  Put(Put(r, "choice", Put(r.choice, "message", tagged)), "attempts", f)

\* start_index always 0
start_index_zero(current_index) == 0

\* line 41
start_index(current_index) == current_index

\* idx counted from the shared index as it is now, not as the call read it
idx_from_current(f) == (fb_current_index + fb_offset[f]) % Len(FallbackModels)

\* line 44
idx(f) == (fb_start_index[f] + fb_offset[f]) % Len(FallbackModels)

\* line 45
retry_params(f) == FallbackModels[idx(f) + 1]

RECURSIVE AttemptsOf(_)
AttemptsOf(S) ==
    IF S = {} THEN 0
    ELSE LET f == CHOOSE x \in S : TRUE
         IN  Len(fb_attempts[f]) + AttemptsOf(S \ {f})

\* the model stops making attempts at MaxAttempts
AttemptBudget == AttemptsOf(FbCalls) < MaxAttempts

\* lines 43, 48: both loops have an iteration to run
InLoops(f) ==
    /\ fb_pc[f] = "LOOP"
    /\ fb_offset[f] < Len(FallbackModels)
    /\ fb_attempt[f] < retry_params(f).max_retry

\* lines 28, 41: a complete call begins
complete_begin(f) ==
    /\ fb_pc[f] = "idle"
    /\ \A g \in FbEarlier(f) : fb_pc[g] # "idle"
    /\ fb_start_index' = [fb_start_index EXCEPT ![f] = start_index(fb_current_index)]
    /\ fb_offset' = [fb_offset EXCEPT ![f] = 0]
    /\ fb_attempt' = [fb_attempt EXCEPT ![f] = 0]
    /\ fb_attempts' = [fb_attempts EXCEPT ![f] = <<>>]
    /\ fb_seen' = [fb_seen EXCEPT ![f] = fb_last_accepted]
    /\ fb_pc' = [fb_pc EXCEPT ![f] = "LOOP"]
    /\ UNCHANGED <<fb_current_index, fb_result, fb_sleeps, fb_last_accepted>>
    /\ UNCHANGED <<ovars, rvars, mvars, pvars>>

\* not_accepted with the delay taken after every attempt, the last included
not_accepted_delayed(f) ==
    /\ fb_pc' = [fb_pc EXCEPT ![f] = "SLEEPING"]
    /\ UNCHANGED fb_attempt

\* lines 63-65 and 69-70: an attempt that was not accepted is followed by the
\* delay unless it was the model's last
not_accepted(f) ==
    IF fb_attempt[f] < retry_params(f).max_retry - 1
    THEN /\ fb_pc' = [fb_pc EXCEPT ![f] = "SLEEPING"]
         /\ UNCHANGED fb_attempt
    ELSE /\ fb_attempt' = [fb_attempt EXCEPT ![f] = @ + 1]
         /\ UNCHANGED fb_pc

\* lines 50-65: the nested call returns a response
attempt_returns(f, kind) ==
    /\ InLoops(f)
    /\ AttemptBudget
    /\ retry_params(f).model_name \in RegisteredModels
    /\ LET inner_response == InnerResponse(retry_params(f).model_name, kind)
       IN  IF acceptable(inner_response)
           THEN /\ fb_current_index' = idx(f)
                /\ fb_last_accepted' = idx(f)
                /\ fb_attempts' = [fb_attempts EXCEPT ![f] =
                      Append(@, wrap_response(inner_response, f))]
                /\ fb_result' = [fb_result EXCEPT ![f] =
                      [returned |-> wrap_response(inner_response, f)]]
                /\ fb_pc' = [fb_pc EXCEPT ![f] = "RETURNED"]
                /\ UNCHANGED fb_attempt
           ELSE /\ fb_attempts' = [fb_attempts EXCEPT ![f] = Append(@, inner_response)]
                /\ not_accepted(f)
                /\ UNCHANGED <<fb_current_index, fb_last_accepted, fb_result>>
    /\ UNCHANGED <<fb_start_index, fb_offset, fb_sleeps, fb_seen>>
    /\ UNCHANGED <<ovars, rvars, mvars, pvars>>

\* lines 50-55, 66-70: the nested call raises, whatever the exception
attempt_raises(f) ==
    /\ InLoops(f)
    /\ AttemptBudget
    /\ LET model_name == retry_params(f).model_name
       IN  fb_attempts' = [fb_attempts EXCEPT ![f] =
              Append(@, [error |-> str_e(model_name), model |-> model_name])]
    /\ not_accepted(f)
    /\ UNCHANGED <<fb_current_index, fb_last_accepted, fb_result>>
    /\ UNCHANGED <<fb_start_index, fb_offset, fb_sleeps, fb_seen>>
    /\ UNCHANGED <<ovars, rvars, mvars, pvars>>

\* lines 65, 70: time.sleep(delay_between_retry), then the next attempt
sleep(f) ==
    /\ fb_pc[f] = "SLEEPING"
    /\ fb_sleeps' = [fb_sleeps EXCEPT ![f] = Append(@, Len(fb_attempts[f]))]
    /\ fb_attempt' = [fb_attempt EXCEPT ![f] = @ + 1]
    /\ fb_pc' = [fb_pc EXCEPT ![f] = "LOOP"]
    /\ UNCHANGED <<fb_current_index, fb_start_index, fb_offset, fb_attempts,
                   fb_result, fb_last_accepted, fb_seen>>
    /\ UNCHANGED <<ovars, rvars, mvars, pvars>>

\* lines 43-48: the inner loop is over, the next model is taken
next_model(f) ==
    /\ fb_pc[f] = "LOOP"
    /\ fb_offset[f] < Len(FallbackModels)
    /\ fb_attempt[f] >= retry_params(f).max_retry
    /\ fb_offset' = [fb_offset EXCEPT ![f] = @ + 1]
    /\ fb_attempt' = [fb_attempt EXCEPT ![f] = 0]
    /\ UNCHANGED <<fb_current_index, fb_pc, fb_start_index, fb_attempts,
                   fb_result, fb_sleeps, fb_last_accepted, fb_seen>>
    /\ UNCHANGED <<ovars, rvars, mvars, pvars>>

\* exhausted with the index moved on to the next model for the next call
exhausted_moving_on(f) ==
    /\ fb_pc[f] = "LOOP"
    /\ fb_offset[f] = Len(FallbackModels)
    /\ fb_result' = [fb_result EXCEPT ![f] =
          [raised |-> [exception_type |-> "UnboundLocalError"]]]
    /\ fb_pc' = [fb_pc EXCEPT ![f] = "RAISED"]
    /\ fb_current_index' = (fb_current_index + 1) % Len(FallbackModels)
    /\ UNCHANGED <<fb_start_index, fb_offset, fb_attempt,
                   fb_attempts, fb_sleeps, fb_last_accepted, fb_seen>>
    /\ UNCHANGED <<ovars, rvars, mvars, pvars>>

\* line 73: the outer loop is over.  The raise statement reads e, which no
\* except clause leaves bound (Python unbinds it at the end of the clause):
\* UnboundLocalError leaves complete, and the attempts go nowhere.
exhausted(f) ==
    /\ fb_pc[f] = "LOOP"
    /\ fb_offset[f] = Len(FallbackModels)
    /\ fb_result' = [fb_result EXCEPT ![f] =
          [raised |-> [exception_type |-> "UnboundLocalError"]]]
    /\ fb_pc' = [fb_pc EXCEPT ![f] = "RAISED"]
    /\ UNCHANGED <<fb_current_index, fb_start_index, fb_offset, fb_attempt,
                   fb_attempts, fb_sleeps, fb_last_accepted, fb_seen>>
    /\ UNCHANGED <<ovars, rvars, mvars, pvars>>

FallbackNext ==
    \/ \E f \in FbCalls : complete_begin(f)
    \/ \E f \in FbCalls, kind \in InnerKinds : attempt_returns(f, kind)
    \/ \E f \in FbCalls : attempt_raises(f)
    \/ \E f \in FbCalls : sleep(f)
    \/ \E f \in FbCalls : next_model(f)
    \/ \E f \in FbCalls : exhausted(f)

FallbackSpec == Init /\ [][FallbackNext]_vars

\* ---- the model registry (ModelManager.py, server.py add_model) --------------
\* most get_provider calls over all threads
MaxGets == 3
\* most add_model requests
MaxAdds == 1

\* the names get_provider is asked for: X is not configured
ModelNames == {"N", "X"}

\* get_provider calls begun so far
GetsBegun == Len(returned) + Cardinality({t \in Threads : reg_pc[t] # "idle"})

\* the model stops beginning get_provider calls at MaxGets
GetBudget == GetsBegun < MaxGets

\* the number of the configuration of N that the latest finished add_model left
CompletedVersion == 1 + completed_adds

\* lines 40-41: the name is in the cache and the cached provider is returned
get_provider_cached(t, model_name) ==
    /\ reg_pc[t] = "idle"
    /\ GetBudget
    /\ model_name \in DOMAIN provider_instances
    /\ returned' = Append(returned, [thread |-> t, model_name |-> model_name,
                                      after |-> CompletedVersion,
                                      provider |-> provider_instances[model_name]])
    /\ UNCHANGED <<model_configs, provider_instances, reg_pc, reg_local, add_pc,
                   constructed, completed_adds>>
    /\ UNCHANGED <<ovars, fvars, mvars, pvars>>

\* line 40: the name is not in the cache
get_provider_miss(t, model_name) ==
    /\ reg_pc[t] = "idle"
    /\ GetBudget
    /\ model_name \notin DOMAIN provider_instances
    /\ reg_local' = [reg_local EXCEPT ![t] =
          [model_name |-> model_name, after |-> CompletedVersion]]
    /\ reg_pc' = [reg_pc EXCEPT ![t] = "MISSED"]
    /\ UNCHANGED <<model_configs, provider_instances, add_pc, constructed,
                   returned, completed_adds>>
    /\ UNCHANGED <<ovars, fvars, mvars, pvars>>

\* what a get_provider call that raised leaves in the history
RaisedEntry(t, exception_type) ==
    [thread |-> t, model_name |-> reg_local[t].model_name,
     after |-> reg_local[t].after, raised |-> exception_type]

\* lines 43-45: no configuration under the name
get_provider_unknown(t) ==
    /\ reg_pc[t] = "MISSED"
    /\ reg_local[t].model_name \notin DOMAIN model_configs
    /\ returned' = Append(returned, RaisedEntry(t, "ValueError"))
    /\ reg_pc' = [reg_pc EXCEPT ![t] = "idle"]
    /\ reg_local' = [reg_local EXCEPT ![t] = EmptyDict]
    /\ UNCHANGED <<model_configs, provider_instances, add_pc, constructed,
                   completed_adds>>
    /\ UNCHANGED <<ovars, fvars, mvars, pvars>>

\* lines 43-50: the configuration is read and the provider class looked up
get_provider_config(t) ==
    /\ reg_pc[t] = "MISSED"
    /\ reg_local[t].model_name \in DOMAIN model_configs
    /\ reg_local' = [reg_local EXCEPT ![t] =
          Put(@, "model_config", model_configs[@.model_name])]
    /\ reg_pc' = [reg_pc EXCEPT ![t] = "CONFIGURED"]
    /\ UNCHANGED <<model_configs, provider_instances, add_pc, constructed,
                   returned, completed_adds>>
    /\ UNCHANGED <<ovars, fvars, mvars, pvars>>

\* line 51: the constructor runs and makes a new provider
get_provider_construct(t) ==
    /\ reg_pc[t] = "CONFIGURED"
    /\ LET provider == [id |-> Len(constructed) + 1,
                        config |-> reg_local[t].model_config]
       IN  /\ constructed' = Append(constructed, provider)
           /\ reg_local' = [reg_local EXCEPT ![t] = Put(@, "provider", provider)]
    /\ reg_pc' = [reg_pc EXCEPT ![t] = "CONSTRUCTED"]
    /\ UNCHANGED <<model_configs, provider_instances, add_pc, returned,
                   completed_adds>>
    /\ UNCHANGED <<ovars, fvars, mvars, pvars>>

\* line 51: the constructor raises (a credential is missing); line 53 is not
\* reached
get_provider_construct_raises(t) ==
    /\ reg_pc[t] = "CONFIGURED"
    /\ returned' = Append(returned, RaisedEntry(t, "ValueError"))
    /\ reg_pc' = [reg_pc EXCEPT ![t] = "idle"]
    /\ reg_local' = [reg_local EXCEPT ![t] = EmptyDict]
    /\ UNCHANGED <<model_configs, provider_instances, add_pc, constructed,
                   completed_adds>>
    /\ UNCHANGED <<ovars, fvars, mvars, pvars>>

\* lines 53-54: the provider is put in the cache and returned
get_provider_store(t) ==
    /\ reg_pc[t] = "CONSTRUCTED"
    /\ provider_instances' =
          Put(provider_instances, reg_local[t].model_name, reg_local[t].provider)
    /\ returned' = Append(returned, [thread |-> t,
                                      model_name |-> reg_local[t].model_name,
                                      after |-> reg_local[t].after,
                                      provider |-> reg_local[t].provider])
    /\ reg_pc' = [reg_pc EXCEPT ![t] = "idle"]
    /\ reg_local' = [reg_local EXCEPT ![t] = EmptyDict]
    /\ UNCHANGED <<model_configs, add_pc, constructed, completed_adds>>
    /\ UNCHANGED <<ovars, fvars, mvars, pvars>>

\* server.py line 103: the new configuration replaces the one under the name
add_model_set(model_name) ==
    /\ add_pc = "idle"
    /\ model_configs[model_name].version <= MaxAdds
    /\ model_configs' = Put(model_configs, model_name,
                            Config(model_name, model_configs[model_name].version + 1))
    /\ add_pc' = model_name
    /\ UNCHANGED <<provider_instances, reg_pc, reg_local, constructed, returned,
                   completed_adds>>
    /\ UNCHANGED <<ovars, fvars, mvars, pvars>>

\* server.py line 105: provider_instances.pop(model_name, None)
add_model_pop ==
    /\ add_pc # "idle"
    /\ provider_instances' =
          IF add_pc \in DOMAIN provider_instances
          THEN Del(provider_instances, add_pc) ELSE provider_instances
    /\ add_pc' = "idle"
    /\ completed_adds' = completed_adds + 1
    /\ UNCHANGED <<model_configs, reg_pc, reg_local, constructed, returned>>
    /\ UNCHANGED <<ovars, fvars, mvars, pvars>>

RegistryNext ==
    \/ \E t \in Threads, n \in ModelNames : get_provider_cached(t, n)
    \/ \E t \in Threads, n \in ModelNames : get_provider_miss(t, n)
    \/ \E t \in Threads : get_provider_unknown(t)
    \/ \E t \in Threads : get_provider_config(t)
    \/ \E t \in Threads : get_provider_construct(t)
    \/ \E t \in Threads : get_provider_construct_raises(t)
    \/ \E t \in Threads : get_provider_store(t)
    \/ add_model_set("N")
    \/ add_model_pop

RegistrySpec == Init /\ [][RegistryNext]_vars

\* ---- complete_with_model: the parameters (ModelManager.py lines 70-76) -----
\* lines 71-75, as the objects are after them: p is what the provider gets
merged_in_place(defaults, call_params) ==
    LET p == [k \in DOMAIN defaults \cup DOMAIN call_params |->
                IF k \in DOMAIN call_params THEN call_params[k] ELSE defaults[k]]
    IN  IF call_params # EmptyDict /\ defaults # EmptyDict
        THEN [p |-> p, default_params |-> p, params |-> call_params]
        ELSE [p |-> IF defaults # EmptyDict THEN defaults ELSE call_params,
              default_params |-> defaults, params |-> call_params]

merged(defaults, call_params) ==
    IF call_params # EmptyDict /\ defaults # EmptyDict
    THEN \* p = dict(default_params); p.update(params)
         [p |-> [k \in DOMAIN defaults \cup DOMAIN call_params |->
                   IF k \in DOMAIN call_params THEN call_params[k] ELSE defaults[k]],
          default_params |-> defaults, params |-> call_params]
    ELSE \* p = default_params or params
         [p |-> IF defaults # EmptyDict THEN defaults ELSE call_params,
          default_params |-> defaults, params |-> call_params]

\* a model's configured defaults and the map of one call
MergeInit ==
    /\ OrchestratorInit /\ FallbackInit /\ RegistryInit /\ PureIdle
    /\ default_params \in ParamDicts
    /\ params \in ParamDicts
    /\ provider_params = <<>>
    /\ params_before = [default_params |-> default_params, params |-> params]

\* lines 70-76: the call, up to provider.complete(messages, p)
complete_with_model ==
    /\ provider_params = <<>>
    /\ LET m == merged(default_params, params)
       IN  /\ provider_params' = <<m.p>>
           /\ default_params' = m.default_params
           /\ params' = m.params
    /\ UNCHANGED params_before
    /\ UNCHANGED <<ovars, fvars, rvars, pvars>>

MergeNext == complete_with_model

MergeSpec == MergeInit /\ [][MergeNext]_vars

\* ---- text ---------------------------------------------------------------------
\* a text is the sequence of its characters
\* str.lower on the characters that occur
lower_char(ch) ==
    CASE ch = "Y" -> "y"
      [] ch = "N" -> "n"
      [] OTHER -> ch

lower(text) == [i \in 1..Len(text) |-> lower_char(text[i])]

\* str.strip: the white space at both ends is dropped
RECURSIVE strip(_)
strip(text) ==
    IF text = <<>> THEN text
    ELSE IF Head(text) = " " THEN strip(Tail(text))
    ELSE IF Last(text) = " " THEN strip(SubSeq(text, 1, Len(text) - 1))
    ELSE text

\* the operator "in" of two texts
contains(text, sub) ==
    \E i \in 0..(Len(text) - Len(sub)) : SubSeq(text, i + 1, i + Len(sub)) = sub

\* ---- WrittenRequirement.evaluate (RequirementTypes.py lines 140-283) ---------
\* most examples in the two pools together
MaxExamples == 3
\* longest answer of the grading model, in characters
MaxAnswer == 5

\* the characters of the prompt that do not depend on the call: the system
\* message without requirement and examples, and the user message without text
FixedChars == 399
\* the heading of the section of the negative and of the positive examples
NegativeHeadingChars == 49
PositiveHeadingChars == 45
\* the heading and the code block around one example
BadExampleChars == 28
GoodExampleChars == 29
\* what joins two examples of a section
JoinChars == 2

RECURSIVE SumLen(_)
SumLen(lens) == IF lens = <<>> THEN 0 ELSE Head(lens) + SumLen(Tail(lens))

\* examples_to_str, in characters: examples are given by their lengths
examples_to_str(examples, heading_chars) ==
    SumLen(examples) + Len(examples) * heading_chars
        + (Len(examples) - 1) * JoinChars

\* construct_msgs: the characters of system_msg + user_msg
construct_msgs(requirement_chars, text_chars, positive_examples, negative_examples) ==
    FixedChars + requirement_chars + text_chars
    + (IF negative_examples # <<>>
       THEN NegativeHeadingChars + examples_to_str(negative_examples, BadExampleChars)
       ELSE 0)
    + (IF positive_examples # <<>>
       THEN PositiveHeadingChars + examples_to_str(positive_examples, GoodExampleChars)
       ELSE 0)

\* BaseModelProvider.estimate_tokens: int(len(text) / 4.3)
estimate_tokens(chars) == (chars * 10) \div 43

\* select_examples going on after an example that does not fit, to try the
\* ones after it
RECURSIVE select_examples_skipping(_, _, _, _)
select_examples_skipping(call, all_examples, positive_examples, negative_examples) ==
    IF all_examples = <<>>
    THEN [positive_examples |-> positive_examples,
          negative_examples |-> negative_examples]
    ELSE LET example == Head(all_examples)
             temp_positive == positive_examples \o
                (IF example.type = "positive" THEN <<example.chars>> ELSE <<>>)
             temp_negative == negative_examples \o
                (IF example.type = "negative" THEN <<example.chars>> ELSE <<>>)
             current_tokens == estimate_tokens(
                construct_msgs(call.requirement_chars, call.text_chars,
                               temp_positive, temp_negative))
         IN  IF current_tokens <= call.token_limit
             THEN select_examples_skipping(call, Tail(all_examples),
                                           temp_positive, temp_negative)
             ELSE select_examples_skipping(call, Tail(all_examples),
                                           positive_examples, negative_examples)

\* lines 231-246: the examples are tried in shuffled order, each kept while
\* the prompt with it is within the limit; the first that is not ends the loop
RECURSIVE select_examples(_, _, _, _)
select_examples(call, all_examples, positive_examples, negative_examples) ==
    IF all_examples = <<>>
    THEN [positive_examples |-> positive_examples,
          negative_examples |-> negative_examples]
    ELSE LET example == Head(all_examples)
             temp_positive == positive_examples \o
                (IF example.type = "positive" THEN <<example.chars>> ELSE <<>>)
             temp_negative == negative_examples \o
                (IF example.type = "negative" THEN <<example.chars>> ELSE <<>>)
             current_tokens == estimate_tokens(
                construct_msgs(call.requirement_chars, call.text_chars,
                               temp_positive, temp_negative))
         IN  IF current_tokens <= call.token_limit
             THEN select_examples(call, Tail(all_examples), temp_positive, temp_negative)
             ELSE [positive_examples |-> positive_examples,
                   negative_examples |-> negative_examples]

\* lines 248-267: the prompt that is sent
eval_args(call) ==
    LET chosen == select_examples(call, call.all_examples, <<>>, <<>>)
    IN  [model_name |-> "grader",
         messages |-> [positive_examples |-> chosen.positive_examples,
                       negative_examples |-> chosen.negative_examples,
                       chars |-> construct_msgs(call.requirement_chars, call.text_chars,
                                                chosen.positive_examples,
                                                chosen.negative_examples)],
         params |-> [max_tokens |-> 1, temperature |-> 0]]

\* yes_and_not_no with the test for "no" left out
yes_only(eval_text) == contains(eval_text, <<"y", "e", "s">>)

\* line 272
yes_and_not_no(eval_text) ==
    contains(eval_text, <<"y", "e", "s">>) /\ ~contains(eval_text, <<"n", "o">>)

\* RequirementResult.construct for a Written requirement
WrittenResult(passed, extra_log_fields) ==
    [passed_eval |-> passed,
     evaluation_log |-> [k \in {"requirement_type", "requirement_name", "passed"}
                               \cup DOMAIN extra_log_fields |->
                            CASE k = "requirement_type" -> "Written"
                              [] k = "requirement_name" -> "written"
                              [] k = "passed" -> passed
                              [] OTHER -> extra_log_fields[k]]]

\* lines 268-283: the grading call and the verdict.  A response without
\* choices makes get_msg_content raise, and the handler takes that too.
written_verdict(call) ==
    IF call.provider.kind = "returns"
    THEN LET eval_text == lower(strip(call.provider.content))
             result == yes_and_not_no(eval_text)
         IN  WrittenResult(result, [evaluation |-> eval_args(call),
                                    eval_result |-> result,
                                    response |-> call.provider])
    ELSE WrittenResult(FALSE,
            [error |-> <<"Error evaluating written requirement", "written",
                         call.provider.kind>>])

\* the example pools after the shuffle: each example has a type and a length
Examples == [type : {"positive", "negative"}, chars : {30, 100}]

ShuffledPools == UNION {[1..n -> Examples] : n \in 0..MaxExamples}

\* the answers of the grading model
AnswerChars == {"y", "e", "s", "n", "o", "Y", " "}

Answers == UNION {[1..n -> AnswerChars] : n \in 0..MaxAnswer}

\* calls that differ in limit, text and examples; the grader answers yes
BudgetInit ==
    /\ SystemInit
    /\ req_call \in [op : {"Written.evaluate"},
                     token_limit : {50, 130, 160, 1024},
                     requirement_chars : {20},
                     text_chars : {10, 400},
                     all_examples : ShuffledPools,
                     provider : {[kind |-> "returns", content |-> <<"y", "e", "s">>]}]
    /\ req_result = EmptyDict
    /\ select_call = EmptyDict /\ select_result = EmptyDict
    /\ class_decl = EmptyDict /\ class_result = EmptyDict

\* calls that differ in what the grading provider does
AnswerInit ==
    /\ SystemInit
    /\ req_call \in [op : {"Written.evaluate"},
                     token_limit : {1024},
                     requirement_chars : {20},
                     text_chars : {10},
                     all_examples : {<<>>},
                     provider : {[kind |-> "returns", content |-> a] : a \in Answers}
                                \cup {[kind |-> "raises"], [kind |-> "no choices"]}]
    /\ req_result = EmptyDict
    /\ select_call = EmptyDict /\ select_result = EmptyDict
    /\ class_decl = EmptyDict /\ class_result = EmptyDict

Written_evaluate ==
    /\ req_result = EmptyDict
    /\ "op" \in DOMAIN req_call
    /\ req_call.op = "Written.evaluate"
    /\ req_result' = [returned |-> written_verdict(req_call),
                      sent |-> eval_args(req_call)]
    /\ UNCHANGED <<req_call, select_call, select_result, class_decl, class_result>>
    /\ UNCHANGED <<ovars, fvars, rvars, mvars>>

BudgetNext == Written_evaluate

BudgetSpec == BudgetInit /\ [][BudgetNext]_vars

AnswerNext == Written_evaluate

AnswerSpec == AnswerInit /\ [][AnswerNext]_vars

\* ---- RegexRequirement.evaluate (RequirementTypes.py lines 59-98) --------------
\* longest list of positive and of negative patterns
MaxPatterns == 2

\* the patterns: literal texts, and one that does not compile
Malformed == <<"(">>

Patterns == {<<"a">>, <<"b">>, <<"a", "b">>, Malformed}

\* the contents of the last message
Contents == UNION {[1..n -> {"a", "b"}] : n \in 0..2}

\* re.search: a match object, None, or re.error for the malformed pattern
re_search(regex, content) ==
    IF regex = Malformed THEN "re.error"
    ELSE IF contains(content, regex) THEN "match"
    ELSE "None"

\* the extra log fields of the first check that ends evaluate, if any:
\* lines 73-83 with type "positive" and a miss as the failure, lines 86-96
\* with type "negative" and a match as the failure
RECURSIVE check_regexes(_, _, _, _)
check_regexes(regexes, content, pattern_type, failure) ==
    IF regexes = <<>> THEN EmptyDict
    ELSE LET regex == Head(regexes)
             found == re_search(regex, content)
         IN  IF found = "re.error"
             THEN [error |-> <<"Invalid", pattern_type, "regex", regex, "re.error">>]
             ELSE IF found = failure
             THEN [pattern_type |-> pattern_type, pattern |-> regex]
             ELSE check_regexes(Tail(regexes), content, pattern_type, failure)

\* RequirementResult.construct for a Regex requirement
RegexResult(passed, extra_log_fields) ==
    [passed_eval |-> passed,
     evaluation_log |-> [k \in {"requirement_type", "requirement_name", "passed"}
                               \cup DOMAIN extra_log_fields |->
                            CASE k = "requirement_type" -> "Regex"
                              [] k = "requirement_name" -> "regex"
                              [] k = "passed" -> passed
                              [] OTHER -> extra_log_fields[k]]]

\* regex_verdict with the negative patterns never looked at
regex_verdict_positive_only(call) ==
    LET positive == check_regexes(call.positive_regexes, call.content,
                                  "positive", "None")
    IN  IF positive # EmptyDict THEN RegexResult(FALSE, positive)
        ELSE RegexResult(TRUE, EmptyDict)

\* lines 69-98
regex_verdict(call) ==
    LET positive == check_regexes(call.positive_regexes, call.content,
                                  "positive", "None")
        negative == check_regexes(call.negative_regexes, call.content,
                                  "negative", "match")
    IN  IF positive # EmptyDict THEN RegexResult(FALSE, positive)
        ELSE IF negative # EmptyDict THEN RegexResult(FALSE, negative)
        ELSE RegexResult(TRUE, EmptyDict)

PatternLists == UNION {[1..n -> Patterns] : n \in 0..MaxPatterns}

RegexInit ==
    /\ SystemInit
    /\ req_call \in [op : {"Regex.evaluate"},
                     positive_regexes : PatternLists,
                     negative_regexes : PatternLists,
                     content : Contents]
    /\ req_result = EmptyDict
    /\ select_call = EmptyDict /\ select_result = EmptyDict
    /\ class_decl = EmptyDict /\ class_result = EmptyDict

Regex_evaluate ==
    /\ req_result = EmptyDict
    /\ "op" \in DOMAIN req_call
    /\ req_call.op = "Regex.evaluate"
    /\ req_result' = [returned |-> regex_verdict(req_call)]
    /\ UNCHANGED <<req_call, select_call, select_result, class_decl, class_result>>
    /\ UNCHANGED <<ovars, fvars, rvars, mvars>>

RegexNext == Regex_evaluate

RegexSpec == RegexInit /\ [][RegexNext]_vars

\* ---- Requirements.from_json (Requirement.py lines 130-175) --------------------
\* longest list of serialized requirements
MaxJson == 3

\* _REQUIREMENT_REGISTRY after RequirementTypes.py is imported
REQUIREMENT_REGISTRY ==
    [t \in {"Contains", "Regex", "Written"} |-> t \o "Requirement"]

\* serialized requirements: with a registered type, an unknown one, an empty
\* one and none at all
JsonDicts ==
    {[type |-> t, name |-> "r"] : t \in DOMAIN REQUIREMENT_REGISTRY \cup {"Bogus", ""}}
    \cup {[name |-> "r"]}

\* lines 141-171: one dict becomes an instance, or ValueError is raised
from_json_single(json_dict) ==
    LET requirement_type == Get(json_dict, "type", "")
    IN  IF requirement_type = ""
        THEN [raised |-> "ValueError: Requirement JSON must include a 'type' field"]
        ELSE IF requirement_type \notin DOMAIN REQUIREMENT_REGISTRY
        THEN [raised |-> "ValueError: Unknown requirement type: " \o requirement_type]
        ELSE [returned |-> [class |-> REQUIREMENT_REGISTRY[requirement_type],
                            name |-> json_dict.name]]

\* from_json_list leaving out the entries that do not deserialize
RECURSIVE from_json_list_skipping(_, _)
from_json_list_skipping(j, done) ==
    IF j = <<>> THEN [returned |-> done]
    ELSE LET one == from_json_single(Head(j))
         IN  from_json_list_skipping(Tail(j),
                IF "raised" \in DOMAIN one THEN done ELSE Append(done, one.returned))

\* line 174: the list comprehension; the first element that raises ends it
RECURSIVE from_json_list(_, _)
from_json_list(j, done) ==
    IF j = <<>> THEN [returned |-> done]
    ELSE LET one == from_json_single(Head(j))
         IN  IF "raised" \in DOMAIN one THEN one
             ELSE from_json_list(Tail(j), Append(done, one.returned))

\* lines 173-175; an argument that is one dict is held as <<dict>>
from_json(call) ==
    IF call.is_list THEN from_json_list(call.j, <<>>)
    ELSE from_json_single(call.j[1])

FromJsonInit ==
    /\ SystemInit
    /\ req_call \in
          {[op |-> "Requirements.from_json", is_list |-> TRUE, j |-> j] :
              j \in UNION {[1..n -> JsonDicts] : n \in 0..MaxJson}}
          \cup {[op |-> "Requirements.from_json", is_list |-> FALSE, j |-> <<j>>] :
                   j \in JsonDicts}
    /\ req_result = EmptyDict
    /\ select_call = EmptyDict /\ select_result = EmptyDict
    /\ class_decl = EmptyDict /\ class_result = EmptyDict

Requirements_from_json ==
    /\ req_result = EmptyDict
    /\ "op" \in DOMAIN req_call
    /\ req_call.op = "Requirements.from_json"
    /\ req_result' = from_json(req_call)
    /\ UNCHANGED <<req_call, select_call, select_result, class_decl, class_result>>
    /\ UNCHANGED <<ovars, fvars, rvars, mvars>>

FromJsonNext == Requirements_from_json

FromJsonSpec == FromJsonInit /\ [][FromJsonNext]_vars

\* ---- json_dataclass (json_dataclass/implementation.py lines 192-375) ---------
\* longest inheritance chain that is declared
MaxChain == 2

FieldNames == {"a", "b", "c"}

\* a declared field: its name and, when it has one, its default value
Field(name, has_default, default) ==
    [name |-> name, has_default |-> has_default, default |-> default]

\* position of the field of that name, 0 when there is none
PositionIn(fields, name) ==
    IF \E i \in 1..Len(fields) : fields[i].name = name
    THEN CHOOSE i \in 1..Len(fields) : fields[i].name = name
    ELSE 0

\* dataclass reads the default of an annotated name with getattr on the class:
\* a name redeclared without a value finds the value of the base class
own_field(fields, f) ==
    LET i == PositionIn(fields, f.name)
    IN  IF ~f.has_default /\ i # 0 /\ fields[i].has_default
        THEN Field(f.name, TRUE, fields[i].default)
        ELSE f

\* the fields of a dataclass: those of its bases in their order, a redeclared
\* name replaced in its place, a new name appended
RECURSIVE dataclass_fields(_, _)
dataclass_fields(fields, own) ==
    IF own = <<>> THEN fields
    ELSE LET f == own_field(fields, Head(own))
             i == PositionIn(fields, f.name)
         IN  dataclass_fields(IF i = 0 THEN Append(fields, f)
                              ELSE [fields EXCEPT ![i] = f],
                              Tail(own))

\* dataclass refuses a field without a default after one with a default
non_default_follows_default(fields) ==
    \E i, j \in 1..Len(fields) :
        i < j /\ fields[i].has_default /\ ~fields[j].has_default

\* lines 192-201 and 372: each class of the chain, base first, goes through
\* the decorator, which ends with dataclass(cls); a class that is refused is
\* never created and neither are those derived from it
RECURSIVE process_chain(_, _)
process_chain(fields, chain) ==
    IF chain = <<>> THEN [raised |-> None, params |-> fields]
    ELSE LET now == dataclass_fields(fields, Head(chain))
         IN  IF non_default_follows_default(now)
             THEN [raised |-> "TypeError", params |-> <<>>]
             ELSE process_chain(now, Tail(chain))

\* the bodies a class of the chain can have at level k: one or two fields of
\* different names, each with or without a default; the default tells the level
ClassBodies(k) ==
    {<<Field(n, d, IF d THEN k ELSE 0)>> : n \in FieldNames, d \in BOOLEAN}
    \cup {<<Field(n, d, IF d THEN k ELSE 0), Field(m, e, IF e THEN k ELSE 0)>> :
             n \in FieldNames, m \in FieldNames, d \in BOOLEAN, e \in BOOLEAN}

Chains ==
    UNION {{c \in [1..n -> UNION {ClassBodies(k) : k \in 1..n}] :
               \A k \in 1..n : c[k] \in ClassBodies(k)} : n \in 1..MaxChain}

ClassInit ==
    /\ SystemInit
    /\ class_decl \in {[chain |-> c] : c \in Chains}
    /\ \A k \in 1..Len(class_decl.chain) :
          Len(class_decl.chain[k]) = 2 =>
              class_decl.chain[k][1].name # class_decl.chain[k][2].name
    /\ class_result = EmptyDict
    /\ req_call = EmptyDict /\ req_result = EmptyDict
    /\ select_call = EmptyDict /\ select_result = EmptyDict

json_dataclass ==
    /\ class_result = EmptyDict
    /\ class_decl # EmptyDict
    /\ class_result' = process_chain(<<>>, class_decl.chain)
    /\ UNCHANGED <<class_decl, req_call, req_result, select_call, select_result>>
    /\ UNCHANGED <<ovars, fvars, rvars, mvars>>

ClassNext == json_dataclass

ClassSpec == ClassInit /\ [][ClassNext]_vars

\* ---- properties -------------------------------------------------------------
Prospects(c) == Get(Get(response[c], "choice", EmptyDict), "prospects", <<>>)

Choice(c) == response[c].choice

Done(c) == Get(response[c], "done", FALSE)

Log(p) == p.requirements_evaluation_log

IsMarker(entry) == "requirements_met" \in DOMAIN entry

Raised(calls) == {j \in 1..Len(calls) : calls[j].result = "raised"}

\* C1: a response marked done has had every requirement of the list evaluated
\* against its last prospect, each with verdict pass, and no evaluation
\* against that prospect failed or is still open.
C1_DoneMeansAllPassed ==
    \A c \in Calls : Done(c) =>
        LET last == Len(Prospects(c))
            round == {j \in 1..Len(eval_calls[c]) : eval_calls[c][j].prospect = last}
        IN  /\ last >= 1
            /\ \A i \in 1..Len(requirements[c]) :
                   \E j \in round : eval_calls[c][j].req = i
            /\ \A j \in round : eval_calls[c][j].result = "pass"

C1_Witness ==
    \E c \in Calls : /\ Done(c)
                     /\ Len(requirements[c]) >= 2
                     /\ Len(Prospects(c)) >= 2

\* C2: the table holds only sessions of calls that are still executing, and
\* the status of a terminated call's key (not taken again by a running call)
\* is "key not found".
C2_TableHoldsOnlyInFlight ==
    /\ \A k \in DOMAIN response_map : InFlight(response_map[k])
    /\ \A c \in Calls :
          (Terminal(c) /\ key[c] # None
             /\ \A d \in Calls \ {c} : InFlight(d) => key[d] # key[c])
          => chat_completion_status(key[c]) = [error |-> "key not found"]

\* C3: within a round the requirements are evaluated in list order from the
\* first, the next one only after the one before passed, so that nothing is
\* evaluated against a draft after a fail; the round of the next draft
\* starts again at the first requirement.
C3_ShortCircuit ==
    \A c \in Calls : \A j \in 1..Len(eval_calls[c]) :
        LET e == eval_calls[c][j]
        IN  IF j > 1 /\ eval_calls[c][j - 1].prospect = e.prospect
            THEN /\ eval_calls[c][j - 1].result = "pass"
                 /\ e.req = eval_calls[c][j - 1].req + 1
            ELSE /\ e.req = 1
                 /\ j > 1 => eval_calls[c][j - 1].prospect < e.prospect

C3_Witness ==
    \E c \in Calls : \E j, j2 \in 1..Len(eval_calls[c]) :
        /\ eval_calls[c][j].result = "fail"
        /\ eval_calls[c][j].req < Len(requirements[c])
        /\ eval_calls[c][j2].prospect > eval_calls[c][j].prospect
        /\ eval_calls[c][j2].req > eval_calls[c][j].req

\* the states of the spec's machine
Phase(p) ==
    IF p \in {"EVALUATING", "IN_EVALUATE", "AFTER_LOOP"} THEN "EVALUATING" ELSE p

Edges ==
    {<<"idle", "GENERATING_INITIAL">>, <<"GENERATING_INITIAL", "EVALUATING">>,
     <<"EVALUATING", "DONE">>, <<"EVALUATING", "REVISING">>,
     <<"REVISING", "EVALUATING">>}
    \cup ({"GENERATING_INITIAL", "EVALUATING", "REVISING"} \X {"STOPPED", "ERRORED"})

\* C4: a session moves only along the edges of the state machine; in DONE,
\* STOPPED and ERRORED it starts no provider call and no evaluation, it is
\* not in the live-session table and its response has been returned.
C4_StateMachine ==
    [][\A c \in Calls :
         /\ Phase(pc[c]) # Phase(pc'[c]) => <<Phase(pc[c]), Phase(pc'[c])>> \in Edges
         /\ Terminal(c) => /\ pc'[c] = pc[c]
                           /\ provider_calls'[c] = provider_calls[c]
                           /\ eval_calls'[c] = eval_calls[c]
         /\ pc'[c] \in {"DONE", "STOPPED", "ERRORED"} =>
                /\ outcome'[c] = "returned"
                /\ \A k \in DOMAIN response_map' : response_map'[k] # c]_vars

\* C5: a session stopped at a checkpoint has finish_reason "Stopped by
\* client", done = false, and the log of its current prospect ends with a
\* marker carrying checked_all_requirements = false.
C5_StoppedResponse ==
    \A c \in Calls : pc[c] = "STOPPED" =>
        /\ Choice(c).finish_reason = "Stopped by client"
        /\ ~Done(c)
        /\ LET log == Log(Last(Prospects(c)))
           IN  /\ Len(log) >= 1
               /\ IsMarker(Last(log))
               /\ Get(Last(log), "checked_all_requirements", TRUE) = FALSE

C7_GenerationError ==
    \A c \in Calls : Raised(provider_calls[c]) # {} =>
        /\ pc[c] = "ERRORED"
        /\ outcome[c] = "returned"
        /\ ~Done(c)
        /\ Choice(c).finish_reason = "Error generating prospect"
        /\ "errors" \in DOMAIN Choice(c) /\ Len(Choice(c).errors) = 1
        /\ Raised(provider_calls[c]) = {Len(provider_calls[c])}
        /\ Len(Prospects(c)) = Len(provider_calls[c]) - 1
        /\ Len(Prospects(c)) >= 1 => Choice(c).message = get_msg(Last(Prospects(c)))
        /\ \A j \in 1..Len(eval_calls[c]) : eval_calls[c][j].result # "pending"

\* C8: an evaluate that throws ends the session ERRORED: one error naming
\* the requirement, finish_reason "Error evaluating requirement", done =
\* false, no revision dispatched, no later evaluation, and no log entry for
\* the throwing requirement (the log holds the passes before it only).
C8_EvaluationError ==
    \A c \in Calls : Raised(eval_calls[c]) # {} =>
        LET e == Last(eval_calls[c])
            log == Log(Last(Prospects(c)))
        IN  /\ Raised(eval_calls[c]) = {Len(eval_calls[c])}
            /\ pc[c] = "ERRORED" /\ outcome[c] = "returned"
            /\ ~Done(c)
            /\ Choice(c).finish_reason = "Error evaluating requirement"
            /\ "errors" \in DOMAIN Choice(c)
            /\ Len(Choice(c).errors) = 1
            /\ Choice(c).errors[1].requirement = requirements[c][e.req].name
            /\ Len(provider_calls[c]) = Len(Prospects(c))
            /\ Last(provider_calls[c]).result = "ok"
            /\ Len(log) = e.req - 1
            /\ \A i \in 1..Len(log) : ~IsMarker(log[i]) /\ log[i].passed

C8_Witness ==
    \E c \in Calls : /\ Raised(eval_calls[c]) # {}
                     /\ Last(eval_calls[c]).req = 2
                     /\ Len(Prospects(c)) = 2

\* C9: a returned response that has an errors field has a non-empty list and
\* done = false; a run in which nothing threw returns no errors field.
C9_ErrorsField ==
    \A c \in Calls : outcome[c] = "returned" =>
        /\ "errors" \in DOMAIN Choice(c) => Choice(c).errors # <<>> /\ ~Done(c)
        /\ (Raised(provider_calls[c]) = {} /\ Raised(eval_calls[c]) = {})
              => "errors" \notin DOMAIN Choice(c)

C9_Witness ==
    \E c, d \in Calls :
        /\ outcome[c] = "returned" /\ "errors" \in DOMAIN Choice(c)
        /\ outcome[d] = "returned" /\ Done(d) /\ Len(Prospects(d)) = 2

Ok(calls) == {j \in 1..Len(calls) : calls[j].result = "ok"}

\* C10: the prospects are the successfully generated drafts in generation
\* order, one prospect and no revision call when nothing failed, k + 1
\* prospects after k successful revisions, and the choice shows the id and
\* the message of the last prospect.
C10_ProspectHistory ==
    \A c \in Calls : pc[c] # "idle" =>
        LET ps == Prospects(c)
        IN  /\ Len(ps) = Cardinality(Ok(provider_calls[c]))
            /\ \A j \in 1..Len(ps) : /\ get_id(ps[j]) = get_id(Draft(j))
                                     /\ get_msg(ps[j]) = get_msg(Draft(j))
            /\ Len(ps) >= 1 => /\ Choice(c).id = get_id(Last(ps))
                               /\ Choice(c).message = get_msg(Last(ps))
            /\ (Done(c) /\ \A j \in 1..Len(eval_calls[c]) :
                               eval_calls[c][j].result = "pass")
                 => Len(ps) = 1 /\ Len(provider_calls[c]) = 1
            /\ Len(ps) >= 1 =>
                 Len(ps) = 1 + Cardinality({j \in Ok(provider_calls[c]) :
                                  provider_calls[c][j].kind = "revision"})

C10_Witness ==
    \E c \in Calls : /\ Done(c)
                     /\ Len(Prospects(c)) = 3
                     /\ Choice(c).id = get_id(Draft(3))

\* ---- resuming from a prior response ----------------------------------------
\* the calls whose request supplied a prior response with at least one prospect
Resumed(c) ==
    /\ "initial_response" \in DOMAIN request[c]
    /\ Len(request[c].initial_response.choice.prospects) >= 1

\* C11: a request that supplies a prior response with at least one prospect
\* is served without an initial generation call: the call does not raise, its
\* current draft is the last prospect of the prior response and its first
\* provider call, if it makes one, is a revision.
C11_ResumesFromPrior ==
    \A c \in Calls :
        Resumed(c) =>
            /\ outcome[c] # "raised"
            /\ pc[c] \notin {"idle", "GENERATING_INITIAL"}
            /\ Len(Prospects(c)) >= 1
            /\ Prospects(c)[1].id =
                   get_id(Last(request[c].initial_response.choice.prospects))
            /\ \A j \in 1..Len(provider_calls[c]) :
                   provider_calls[c][j].kind # "initial"

\* ---- the caller's message list ---------------------------------------------
\* C19: the list the caller passed as messages holds the same elements after
\* any run as before the call, whatever the call did: drafts and correction
\* turns are in the lists built from it.
C19_MessagesUntouched ==
    \A c \in Calls :
        pc[c] # "idle" =>
            /\ lists[c].messages = Messages
            /\ "conversation" \in DOMAIN lists[c] =>
                   /\ Len(lists[c].conversation) <= Len(Messages) + 1
                   /\ Last(lists[c].conversation) = get_msg(Last(Prospects(c)))

\* a call that revised twice and then ended by an evaluation error
C19_Witness ==
    \E c \in Calls :
        /\ pc[c] = "ERRORED"
        /\ outcome[c] = "returned"
        /\ Len(Prospects(c)) = 3
        /\ Len(lists[c].revision_conversation) = Len(Messages) + 2

\* ---- no limit on revisions -------------------------------------------------
\* the evaluations of the call against its p-th prospect that passed
Passes(c, p) ==
    {j \in 1..Len(eval_calls[c]) :
        eval_calls[c][j].prospect = p /\ eval_calls[c][j].result = "pass"}

\* no draft of the call has passed every requirement so far, no provider
\* call or evaluation raised, and no stop request reached the call
AlwaysFailing(c) ==
    /\ pc[c] # "idle"
    /\ Len(requirements[c]) >= 1
    /\ Raised(provider_calls[c]) = {}
    /\ Raised(eval_calls[c]) = {}
    /\ stop_mark[c] = NoMark
    /\ \A p \in 1..Len(Prospects(c)) :
           Cardinality(Passes(c, p)) < Len(requirements[c])

\* C20: a call whose drafts fail a requirement every time, with providers
\* that succeed and no stop request, is never DONE, STOPPED or ERRORED, and
\* after each failed round its only step is to dispatch the next revision,
\* however many prospects it already has.
C20_NoRevisionLimit ==
    \A c \in Calls :
        AlwaysFailing(c) =>
            /\ ~Terminal(c)
            /\ pc[c] = "AFTER_LOOP" =>
                   /\ ~all_requirements_met[c]
                   /\ DraftBudget => ENABLED DispatchRevision(c)
                   /\ ~ENABLED Finish(c)
                   /\ ~ENABLED StopBeforeRevision(c)

\* a call with as many prospects as the model allows, all failed, still running
C20_Witness ==
    \E c \in Calls :
        /\ AlwaysFailing(c)
        /\ Len(Prospects(c)) = MaxDrafts
        /\ pc[c] = "AFTER_LOOP"
        /\ Len(provider_calls[c]) = MaxDrafts

\* ---- the Fallback provider: properties --------------------------------------
\* the position in config.models of the model an entry of attempts was made on
PositionOf(entry) ==
    (CHOOSE i \in 1..Len(FallbackModels) :
        FallbackModels[i].model_name = entry.model) - 1

\* C12: a complete call that begins after some model was accepted makes its
\* first attempt on the model at the position of the latest acceptance, and
\* every call takes its start index from there.
C12_StartsAtPersistedIndex ==
    \A f \in FbCalls :
        fb_pc[f] # "idle" /\ fb_seen[f] # -1 =>
            /\ fb_start_index[f] = fb_seen[f]
            /\ Len(fb_attempts[f]) >= 1 => PositionOf(fb_attempts[f][1]) = fb_seen[f]

\* a call that began after the third model was accepted and tried it first
C12_Witness ==
    \E f \in FbCalls :
        /\ fb_seen[f] = 2
        /\ Len(fb_attempts[f]) >= 1
        /\ PositionOf(fb_attempts[f][1]) = 2

\* done, no errors field in the first choice, finish_reason no failure sentinel
Usable(entry) ==
    /\ "error" \notin DOMAIN entry
    /\ entry.done = TRUE
    /\ "errors" \notin DOMAIN entry.choice
    /\ entry.choice.finish_reason # "error"
    /\ entry.choice.finish_reason # "Stopped by client"

\* C13: an attempt's response is what complete returns exactly when it is
\* done, carries no errors and no failure sentinel as finish_reason; it is
\* then the last attempt of the call, and a returned call has such an attempt.
C13_AcceptanceRule ==
    \A f \in FbCalls :
        /\ \A j \in 1..Len(fb_attempts[f]) :
              Usable(fb_attempts[f][j]) <=>
                 /\ fb_pc[f] = "RETURNED"
                 /\ j = Len(fb_attempts[f])
                 /\ fb_result[f] = [returned |-> fb_attempts[f][j]]
        /\ fb_pc[f] = "RETURNED" =>
              /\ Len(fb_attempts[f]) >= 1
              /\ Usable(Last(fb_attempts[f]))

\* a call that returned after attempts of each refused kind
C13_Witness ==
    \E f \in FbCalls :
        /\ fb_pc[f] = "RETURNED"
        /\ Len(fb_attempts[f]) >= 4
        /\ \E j \in 1..Len(fb_attempts[f]) :
              /\ "error" \notin DOMAIN fb_attempts[f][j]
              /\ fb_attempts[f][j].done
              /\ fb_attempts[f][j].choice.finish_reason = "Stopped by client"
        /\ \E j \in 1..Len(fb_attempts[f]) :
              /\ "error" \notin DOMAIN fb_attempts[f][j]
              /\ "errors" \in DOMAIN fb_attempts[f][j].choice

\* C14: a complete call that ran out of models raises ProviderException, and
\* the exception carries the list of the call's attempts.
C14_ExhaustionRaisesWithAttempts ==
    \A f \in FbCalls :
        fb_pc[f] = "RAISED" =>
            /\ fb_result[f].raised.exception_type = "ProviderException"
            /\ Get(fb_result[f].raised, "attempts", None) = f

\* an entry of attempts left by a configuration error of the nested call
ConfigurationError(entry) ==
    /\ "error" \in DOMAIN entry
    /\ entry.model \notin RegisteredModels

\* C15: a configuration error met on a member of the Fallback list ends the
\* complete call: it is the last attempt and the call has raised.
C15_ConfigurationErrorNotRetried ==
    \A f \in FbCalls :
        \A j \in 1..Len(fb_attempts[f]) :
            ConfigurationError(fb_attempts[f][j]) =>
                /\ j = Len(fb_attempts[f])
                /\ fb_pc[f] = "RAISED"

\* ---- the model registry: properties -----------------------------------------
\* the entries of the history that returned a provider for the name
ReturnedFor(model_name) ==
    {j \in 1..Len(returned) :
        returned[j].model_name = model_name /\ "provider" \in DOMAIN returned[j]}

\* C16: while no add_model has touched the name, the constructor ran at most
\* once for it and every get_provider call returned the same instance.
C16_OneInstancePerName ==
    completed_adds = 0 /\ add_pc = "idle" =>
        /\ Cardinality({j \in 1..Len(constructed) :
                           constructed[j].config.name = "N"}) <= 1
        /\ \A i, j \in ReturnedFor("N") :
              returned[i].provider.id = returned[j].provider.id

\* C17: a get_provider call that began after an add_model for the name had
\* finished returns a provider constructed from that configuration or a
\* later one.
C17_FreshAfterAdd ==
    \A j \in ReturnedFor("N") :
        returned[j].provider.config.version >= returned[j].after

\* ---- complete_with_model: properties ----------------------------------------
\* C18: the provider gets, for every key, the call's value where the call
\* supplies the key and the configured default otherwise, and both maps are
\* after the call what they were before it.
C18_ParamsOverlay ==
    provider_params # <<>> =>
        LET p == provider_params[1]
            d == params_before.default_params
            c == params_before.params
        IN  /\ DOMAIN p = DOMAIN d \cup DOMAIN c
            /\ \A k \in DOMAIN p :
                  p[k] = IF k \in DOMAIN c THEN c[k] ELSE d[k]
            /\ default_params = d
            /\ params = c

\* a call made with a key in both maps, a key in the defaults only and
\* different values for the shared key
C18_Witness ==
    /\ provider_params # <<>>
    /\ DOMAIN params_before.default_params = ParamKeys
    /\ DOMAIN params_before.params = {"temperature"}
    /\ params_before.default_params["temperature"] # params_before.params["temperature"]
    /\ provider_params[1]["temperature"] = params_before.params["temperature"]

\* ---- the evaluation logs of a returned response -----------------------------
\* the evaluations of the call against its p-th prospect that gave a verdict
Verdicts(c, p) ==
    SelectSeq(eval_calls[c],
              LAMBDA e : e.prospect = p /\ e.result \in {"pass", "fail"})

\* C30: in the response of a call that returned, for whatever reason, the
\* log of every prospect ends with a terminal marker, and before the marker
\* it holds one entry per requirement evaluated against the prospect, in
\* the order of evaluation.
C30_LogsEndWithMarker ==
    \A c \in Calls :
        outcome[c] = "returned" =>
            \A p \in 1..Len(Prospects(c)) :
                LET log == Log(Prospects(c)[p])
                    v == Verdicts(c, p)
                IN  /\ Len(log) = Len(v) + 1
                    /\ IsMarker(Last(log))
                    /\ \A j \in 1..Len(v) :
                          /\ ~IsMarker(log[j])
                          /\ log[j].requirement_name =
                                 requirements[c][v[j].req].name

\* ---- the Written requirement: properties ------------------------------------
\* C21: the prompt WrittenRequirement.evaluate sends is estimated at no more
\* tokens than the requirement's token_limit, whatever the limit, the
\* example pools and their shuffled order.
C21_PromptWithinLimit ==
    "sent" \in DOMAIN req_result =>
        estimate_tokens(req_result.sent.messages.chars) <= req_call.token_limit

\* C22: a Written requirement passes exactly when the grader's answer,
\* stripped and lower-cased, contains yes and does not contain no; a failed
\* result carries the raw response, or the error when the grading call or
\* the reading of its response failed.
C22_YesAndNotNo ==
    "returned" \in DOMAIN req_result =>
        LET r == req_result.returned
            answered == req_call.provider.kind = "returns"
            text == IF answered THEN req_call.provider.content ELSE <<>>
            yes == \E i \in 1..Len(text) - 2 :
                      /\ text[i] \in {"y", "Y"}
                      /\ text[i + 1] = "e"
                      /\ text[i + 2] = "s"
            no == \E i \in 1..Len(text) - 1 :
                      text[i] \in {"n", "N"} /\ text[i + 1] = "o"
        IN  /\ r.passed_eval <=> (answered /\ yes /\ ~no)
            /\ r.evaluation_log.passed = r.passed_eval
            /\ answered => r.evaluation_log.response = req_call.provider
            /\ ~answered => "error" \in DOMAIN r.evaluation_log

\* an answer with both words was given and the requirement failed
C22_Witness ==
    /\ "returned" \in DOMAIN req_result
    /\ req_call.provider.kind = "returns"
    /\ req_call.provider.content = <<"Y", "e", "s", "n", "o">>
    /\ ~req_result.returned.passed_eval

\* the lengths of the examples of one polarity among the first j of the
\* shuffled order
OfType(type, j) ==
    LET first == SubSeq(req_call.all_examples, 1, j)
        picked == SelectSeq(first, LAMBDA ex : ex.type = type)
    IN  [i \in 1..Len(picked) |-> picked[i].chars]

\* the estimate of the prompt with the first j examples of the shuffled order
EstimateWith(j) ==
    estimate_tokens(construct_msgs(req_call.requirement_chars, req_call.text_chars,
                                   OfType("positive", j), OfType("negative", j)))

\* C38: the examples in the prompt are the longest prefix of the shuffled
\* order whose every tentative prompt is estimated within token_limit: the
\* first example that overflows and all after it are left out, also one that
\* would fit; each example stands in the section of its own polarity.
C38_LongestFittingPrefix ==
    "sent" \in DOMAIN req_result =>
        LET sent == req_result.sent.messages
            n == Len(req_call.all_examples)
            k == Len(sent.positive_examples) + Len(sent.negative_examples)
        IN  /\ k <= n
            /\ sent.positive_examples = OfType("positive", k)
            /\ sent.negative_examples = OfType("negative", k)
            /\ \A j \in 1..k : EstimateWith(j) <= req_call.token_limit
            /\ k < n => EstimateWith(k + 1) > req_call.token_limit

\* the first example of the order did not fit and the prompt has none,
\* although the second, shorter one would have fitted alone
C38_Witness ==
    /\ "sent" \in DOMAIN req_result
    /\ req_call.all_examples = <<[type |-> "negative", chars |-> 100],
                                 [type |-> "negative", chars |-> 30]>>
    /\ req_call.token_limit = 130
    /\ req_call.text_chars = 10
    /\ req_result.sent.messages.negative_examples = <<>>
    /\ estimate_tokens(construct_msgs(20, 10, <<>>, <<30>>)) <= 130

\* ---- the Regex requirement: properties --------------------------------------
\* the elements of a list of patterns
Range(seq) == {seq[i] : i \in 1..Len(seq)}

\* the text occurs in the content
Occurs(text, content) ==
    \E i \in 1..Len(content), j \in 0..Len(content) :
        i <= j + 1 /\ j - i + 1 = Len(text) /\
        \A k \in 1..Len(text) : content[i + k - 1] = text[k]

KnownType(json_dict) ==
    /\ "type" \in DOMAIN json_dict
    /\ json_dict.type \in {"Contains", "Regex", "Written"}

\* C24: deserializing raises when a type discriminator is missing or not
\* registered, for a single requirement and for any element of a list, in
\* which case no list is returned; otherwise every element comes back as an
\* instance, none dropped.
C24_UnknownTypeRaises ==
    ("op" \in DOMAIN req_call /\ req_call.op = "Requirements.from_json"
        /\ req_result # EmptyDict) =>
        LET j == req_call.j
            all_known == \A i \in 1..Len(j) : KnownType(j[i])
        IN  /\ ~all_known => DOMAIN req_result = {"raised"}
            /\ all_known =>
                  /\ DOMAIN req_result = {"returned"}
                  /\ req_call.is_list =>
                        /\ Len(req_result.returned) = Len(j)
                        /\ \A i \in 1..Len(j) :
                              req_result.returned[i].class =
                                 j[i].type \o "Requirement"
                  /\ ~req_call.is_list =>
                        req_result.returned.class = j[1].type \o "Requirement"

\* a list whose last element alone has an unknown type was refused whole
C24_Witness ==
    /\ "op" \in DOMAIN req_call
    /\ req_call.op = "Requirements.from_json"
    /\ req_call.is_list
    /\ Len(req_call.j) = MaxJson
    /\ \A i \in 1..(MaxJson - 1) : KnownType(req_call.j[i])
    /\ Get(req_call.j[MaxJson], "type", "") = "Bogus"
    /\ "raised" \in DOMAIN req_result

\* the one entry of the selection of the call: the bare value, or the only
\* item of a list
Entry ==
    LET sel == select_call.config.messages_to_include
    IN  IF sel.kind = "list" THEN sel.items[1] ELSE sel

Selected == select_result # EmptyDict

\* C25: a selection that is a single integer index i over N filtered messages
\* yields exactly the message at position i when 0 <= i < N, the message at
\* position N + i when -N <= i < 0, and no message otherwise.
C25_SingleIndex ==
    (Selected /\ Entry.kind = "int") =>
        LET i == Entry.value
            msgs == select_call.messages
            N == Len(msgs)
        IN  select_result.returned =
                IF 0 <= i /\ i < N THEN <<msgs[i + 1]>>
                ELSE IF 0 - N <= i /\ i < 0 THEN <<msgs[N + i + 1]>>
                ELSE <<>>

\* the positions 0..N-1 that lie between the two resolved bounds
Between(lo, hi, N) == {k \in 0..(N - 1) : lo <= k /\ k <= hi}

\* C26: a (start, end) pair, each bound resolved by the negative-indexing rule,
\* yields the messages from start through end inclusive, ascending when
\* start <= end and descending otherwise, without the positions outside the
\* conversation.
C26_RangeSelection ==
    (Selected /\ Entry.kind = "tuple") =>
        LET msgs == select_call.messages
            N == Len(msgs)
            s == IF Entry.start < 0 THEN N + Entry.start ELSE Entry.start
            e == IF Entry.end < 0 THEN N + Entry.end ELSE Entry.end
            P == IF s <= e THEN Between(s, e, N) ELSE Between(e, s, N)
            out == select_result.returned
        IN  /\ Len(out) = Cardinality(P)
            /\ \A k \in 1..Len(out) :
                  \E p \in P :
                     /\ out[k] = msgs[p + 1]
                     /\ Cardinality({q \in P : IF s <= e THEN q < p ELSE q > p}) = k - 1

\* the range (2, 0) over five messages has yielded positions 2, 1, 0
C26_Witness ==
    /\ Selected
    /\ Entry = PyPair(2, 0)
    /\ Len(select_call.messages) = 5
    /\ select_result.returned =
          <<select_call.messages[3], select_call.messages[2], select_call.messages[1]>>

\* out is the messages of msgs at the positions P, in their order in msgs
KeptInOrder(out, msgs, P) ==
    /\ Len(out) = Cardinality(P)
    /\ \A k \in 1..Len(out) :
          \E p \in P : /\ out[k] = msgs[p]
                        /\ Cardinality({q \in P : q < p}) = k - 1

\* the filter of the call as a map from name to include (a list maps each
\* name to TRUE)
FilterMap(filter) ==
    IF filter.kind = "list"
    THEN [k \in Range(filter.items) |-> TRUE]
    ELSE filter.map

\* C27: with a role filter that is a list or a map whose values are all true,
\* exactly the messages whose role is listed survive; with a map that mixes
\* true and false, a message survives unless its role is mapped to false;
\* the survivors keep their relative order.
C27_RoleFilter ==
    (Selected /\ select_call.config.filter_roles.kind \in {"list", "dict"}) =>
        LET msgs == select_call.messages
            map == FilterMap(select_call.config.filter_roles)
            all_true == \A r \in DOMAIN map : map[r]
            mixed == (\E r \in DOMAIN map : map[r]) /\ (\E r \in DOMAIN map : ~map[r])
            listed == {p \in 1..Len(msgs) : msgs[p].role \in DOMAIN map}
            not_false == {p \in 1..Len(msgs) :
                            ~(msgs[p].role \in DOMAIN map /\ ~map[msgs[p].role])}
        IN  /\ all_true => KeptInOrder(select_result.returned, msgs, listed)
            /\ mixed => KeptInOrder(select_result.returned, msgs, not_false)

\* a mixed map has dropped the role mapped to false and kept an unmapped role
\* and a role mapped to true, in their order
C27_Witness ==
    /\ Selected
    /\ select_call.config.filter_roles = PyDict([user |-> TRUE, system |-> FALSE])
    /\ Len(select_call.messages) = 4
    /\ [i \in 1..4 |-> select_call.messages[i].role]
          = <<"assistant", "system", "user", "assistant">>
    /\ select_result.returned =
          <<select_call.messages[1], select_call.messages[3], select_call.messages[4]>>

\* whether the tag filter map lets a message with these tags through, by the
\* three modes; a message without tags goes by the entry of the sentinel None
Survives(tags, map) ==
    LET T == Range(tags)
        all_include == \A t \in DOMAIN map : map[t]
        some_include == \E t \in DOMAIN map : map[t]
        mapped_true(t) == t \in DOMAIN map /\ map[t]
        mapped_false(t) == t \in DOMAIN map /\ ~map[t]
    IN  IF T = {}
        THEN IF all_include THEN None \in DOMAIN map ELSE ~mapped_false(None)
        ELSE IF all_include THEN \E t \in T : t \in DOMAIN map
        ELSE IF some_include
        THEN (\E t \in T : mapped_true(t)) /\ ~(\E t \in T : mapped_false(t))
        ELSE ~(\E t \in T : mapped_false(t))

TagsOf(message) == IF "tags" \in DOMAIN message THEN message.tags ELSE <<>>

\* C28: tag filtering has three modes by the values of the filter map: all
\* include - a tagged message survives iff one of its tags is listed; some but
\* not all include - iff one of its tags maps to true and none maps to false;
\* none include - unless one of its tags maps to false; a message without tags
\* goes by the entry of the sentinel None.
C28_TagFilter ==
    (Selected /\ select_call.config.filter_tags.kind \in {"list", "dict"}) =>
        LET msgs == select_call.messages
            map == FilterMap(select_call.config.filter_tags)
        IN  KeptInOrder(select_result.returned, msgs,
                        {p \in 1..Len(msgs) : Survives(TagsOf(msgs[p]), map)})

\* a map with one include and one exclude has kept the message whose tags hold
\* the included tag and dropped the one that also holds the excluded tag
C28_Witness ==
    /\ Selected
    /\ select_call.config.filter_tags = PyDict([t1 |-> TRUE, t2 |-> FALSE])
    /\ Len(select_call.messages) = 2
    /\ TagsOf(select_call.messages[1]) = <<"t1", "t2">>
    /\ TagsOf(select_call.messages[2]) = <<"t1", "t3">>
    /\ select_result.returned = <<select_call.messages[2]>>

\* every field the chain declares, in declaration order from the base down,
\* a redeclared name standing where it was first declared with the value of
\* its last declaration
RECURSIVE DeclaredFields(_, _)
DeclaredFields(fields, chain) ==
    IF chain = <<>> THEN fields
    ELSE DeclaredFields(dataclass_fields(fields, Head(chain)), Tail(chain))

\* a name a class declares again had a default and is given a default
OverridesKeepDefault ==
    LET chain == class_decl.chain
    IN  \A k \in 1..Len(chain) : \A i \in 1..Len(chain[k]) :
          \A h \in 1..(k - 1) : \A j \in 1..Len(chain[h]) :
             chain[h][j].name = chain[k][i].name =>
                chain[h][j].has_default /\ chain[k][i].has_default

\* C29: a chain of json_dataclass classes whose fields with and without
\* defaults are interleaved is created without error, and the positional
\* parameters of the constructor are the fields without a default, in
\* declaration order from the base down, then the fields with a default, in
\* declaration order; a child's default replaces its parent's.
C29_FieldsReordered ==
    (class_result # EmptyDict /\ OverridesKeepDefault) =>
        LET fields == DeclaredFields(<<>>, class_decl.chain)
            N == Len(fields)
            without == {i \in 1..N : ~fields[i].has_default}
            got == class_result.params
        IN  /\ class_result.raised = None
            /\ Len(got) = N
            /\ \A i \in 1..N :
                  LET before == IF i \in without
                                THEN Cardinality({j \in without : j < i})
                                ELSE Cardinality(without)
                                     + Cardinality({j \in (1..N) \ without : j < i})
                  IN  got[before + 1] = fields[i]

\* ---- the orchestrator: the audit trail ----------------------------------------
\* C31: the terminal marker of a prospect's log has checked_all_requirements
\* true exactly when every requirement of the list was evaluated against that
\* prospect in its round, and false when the round was cut short by a failing
\* requirement or by a stop.
C31_CheckedAllTruthful ==
    \A c \in Calls : \A p \in 1..Len(Prospects(c)) :
        LET log == Log(Prospects(c)[p])
        IN  (Len(log) >= 1 /\ IsMarker(Last(log))) =>
                (Last(log).checked_all_requirements
                    <=> Len(Verdicts(c, p)) = Len(requirements[c]))

\* the evaluations of the call against its p-th prospect that failed
Fails(c, p) ==
    {j \in 1..Len(eval_calls[c]) :
        eval_calls[c][j].prospect = p /\ eval_calls[c][j].result = "fail"}

\* C32: each revision is generated by the provider the failed requirement
\* names as its revision_model, and by the target model when it names none;
\* the choice is made for each failed requirement, so the revisions of one
\* session may go to different providers.
C32_RevisionProvider ==
    \A c \in Calls : \A j \in 2..Len(provider_calls[c]) :
        /\ provider_calls[c][j].kind = "revision"
        /\ \E e \in Fails(c, j - 1) :
              LET failed_req == requirements[c][eval_calls[c][e].req]
              IN  /\ Cardinality(Fails(c, j - 1)) = 1
                  /\ provider_calls[c][j].model_name =
                        IF failed_req.revision_model = None THEN "M"
                        ELSE failed_req.revision_model

\* one session has had a revision from the target model and then one from
\* the revision model its second requirement names
C32_Witness ==
    \E c \in Calls :
        /\ Len(provider_calls[c]) = 3
        /\ provider_calls[c][2].model_name = "M"
        /\ provider_calls[c][3].model_name = "R"
        /\ provider_calls[c][3].result = "ok"

\* the message of the prospect a revision call revises
Revised(c, j) == get_msg(Draft(j - 1))

\* C33: every provider call of the orchestrator is given the caller's
\* conversation filtered by the input selection of the provider called: the
\* initial call select(messages) under the target model's rules, a revision
\* call select(messages) under the revision provider's rules followed by the
\* current draft and then the correction message of the failed requirement.
C33_ProviderInput ==
    \A c \in Calls : \A j \in 1..Len(provider_calls[c]) :
        LET call == provider_calls[c][j]
            selected == select_with(Messages, input_config(call.model_name))
        IN  IF call.kind = "initial"
            THEN call.messages = selected
            ELSE \E e \in Fails(c, j - 1) :
                    call.messages =
                        selected \o <<Revised(c, j),
                                      revise_prompt(requirements[c][eval_calls[c][e].req])>>

\* ---- the Fallback provider: the order of attempts ------------------------------
\* how far round the list from the call's start index the k-th attempt was made
Offset(f, k) ==
    (PositionOf(fb_attempts[f][k]) - fb_start_index[f] + Len(FallbackModels))
        % Len(FallbackModels)

\* the attempts of the call on the model of its k-th attempt, up to the k-th
RunUpTo(f, k) == {j \in 1..k : Offset(f, j) = Offset(f, k)}

\* C34: in one complete call the models are visited in cyclic order from the
\* start index, each once; a model with max_retry r gets at most r attempts,
\* one after the other; no attempt follows an acceptance; and the delay is
\* taken only between two attempts on the same model, never after a model's
\* last attempt.
C34_AttemptOrder ==
    \A f \in FbCalls :
        LET n == Len(fb_attempts[f])
            max_retry(k) == FallbackModels[PositionOf(fb_attempts[f][k]) + 1].max_retry
        IN  /\ n >= 1 => Offset(f, 1) = 0
            /\ \A k \in 1..n : Cardinality(RunUpTo(f, k)) <= max_retry(k)
            /\ \A k \in 1..(n - 1) :
                  /\ ~Usable(fb_attempts[f][k])
                  /\ \/ Offset(f, k + 1) = Offset(f, k)
                     \/ /\ Offset(f, k + 1) = Offset(f, k) + 1
                        /\ Cardinality(RunUpTo(f, k)) = max_retry(k)
            /\ \A i \in 1..Len(fb_sleeps[f]) :
                  LET k == fb_sleeps[f][i]
                  IN  /\ k \in 1..n
                      /\ \A j \in 1..(i - 1) : fb_sleeps[f][j] < k
                      /\ ~Usable(fb_attempts[f][k])
                      /\ Cardinality(RunUpTo(f, k)) < max_retry(k)
                      /\ k < n => Offset(f, k + 1) = Offset(f, k)

\* a call that went through every model: delays after the first attempt on
\* each model of two attempts, none after a model's last attempt
C34_Witness ==
    \E f \in FbCalls :
        /\ fb_pc[f] = "RAISED"
        /\ Len(fb_attempts[f]) = 5
        /\ fb_sleeps[f] = <<1, 3>>

\* ---- the Fallback provider: current_index --------------------------------------
\* the step in which the call f has an attempt accepted and returns
Accepts(f) == fb_pc[f] = "LOOP" /\ fb_pc'[f] = "RETURNED"

\* C35: current_index changes only when an attempt is accepted and is then
\* the position of the accepted model; a complete call that ends by
\* exhaustion or an exception leaves it as it was; it stays within
\* 0 .. number of models - 1.
C35_IndexOnlyOnAcceptance ==
    [][/\ fb_current_index' \in 0..(Len(FallbackModels) - 1)
       /\ fb_current_index' # fb_current_index => \E f \in FbCalls : Accepts(f)
       /\ \A f \in FbCalls :
             /\ Accepts(f) =>
                   /\ Usable(Last(fb_attempts'[f]))
                   /\ fb_current_index' = PositionOf(Last(fb_attempts'[f]))
             /\ (fb_pc[f] # "RAISED" /\ fb_pc'[f] = "RAISED") =>
                   fb_current_index' = fb_current_index]_vars

\* an acceptance has moved the index to the third model, and the other call
\* has made an attempt that was refused without moving it
C35_Witness ==
    \E f, g \in FbCalls :
        /\ fb_pc[f] = "RETURNED"
        /\ PositionOf(Last(fb_attempts[f])) = 2
        /\ fb_current_index = 2
        /\ g # f
        /\ Len(fb_attempts[g]) >= 1
        /\ fb_pc[g] # "RETURNED"

\* ---- the Fallback provider: concurrent calls -----------------------------------
\* the positions a call that starts at start tries, in order, while every
\* attempt is refused: each model max_retry times, round the list once
RECURSIVE Schedule(_, _)
Schedule(start, offset) ==
    IF offset = Len(FallbackModels) THEN <<>>
    ELSE LET at == (start + offset) % Len(FallbackModels)
         IN  [k \in 1..FallbackModels[at + 1].max_retry |-> at]
             \o Schedule(start, offset + 1)

Finished(f) == fb_pc[f] \in {"RETURNED", "RAISED"}

\* the positions of the models accepted by the calls that returned
AcceptedPositions ==
    {PositionOf(Last(fb_attempts[f])) : f \in {g \in FbCalls : fb_pc[g] = "RETURNED"}}

\* C36: however concurrent complete calls on one Fallback provider interleave,
\* the models a call attempts follow from the index it read when it began,
\* and current_index is never at a position where no acceptance happened:
\* once all calls have finished it is the position of a model one of them
\* accepted, or its first value when none accepted.
C36_ConcurrentCalls ==
    /\ \A f \in FbCalls :
          /\ Len(fb_attempts[f]) <= Len(Schedule(fb_start_index[f], 0))
          /\ \A k \in 1..Len(fb_attempts[f]) :
                PositionOf(fb_attempts[f][k]) = Schedule(fb_start_index[f], 0)[k]
    /\ IF AcceptedPositions = {} THEN fb_current_index = 0
       ELSE fb_current_index \in AcceptedPositions
    /\ (\A f \in FbCalls : Finished(f)) =>
          \/ fb_current_index \in AcceptedPositions
          \/ /\ \A f \in FbCalls : fb_pc[f] = "RAISED"
             /\ fb_current_index = 0

\* two calls that both began before any acceptance have finished; one
\* accepted the third model, the other then the first, where the index rests
C36_Witness ==
    \E f, g \in FbCalls :
        /\ fb_seen[f] = -1 /\ fb_seen[g] = -1
        /\ fb_pc[f] = "RETURNED" /\ fb_pc[g] = "RETURNED"
        /\ PositionOf(Last(fb_attempts[f])) = 0
        /\ PositionOf(Last(fb_attempts[g])) = 2
        /\ fb_current_index = 0

\* ---- cancellation ----------------------------------------------------------------
\* C37: once stop_chat_completion has reached a session in the table, and
\* provided the provider call or the evaluation in progress returns, the
\* completion call ends, also when a requirement fails on every draft.
C37_StopTerminates ==
    \A c \in Calls : (stop_mark[c] # NoMark) ~> (outcome[c] # "none")

\* a call whose drafts all failed a requirement was stopped while a revision
\* was being generated, and has returned
C37_Witness ==
    \E c \in Calls :
        /\ stop_mark[c] # NoMark
        /\ stop_mark[c].during = "REVISING"
        /\ pc[c] = "STOPPED"
        /\ outcome[c] = "returned"
        /\ \A p \in 1..(Len(Prospects(c)) - 1) : Fails(c, p) # {}

\* the log of prospect i of a history ends with the marker that hands over to
\* prospect i + 1
HandsOver(ps, i) ==
    /\ Log(ps[i]) # <<>>
    /\ LET marker == Last(Log(ps[i]))
       IN  /\ IsMarker(marker)
           /\ marker.requirements_met = FALSE
           /\ "revision_id" \in DOMAIN marker
           /\ marker.revision_id = get_id(ps[i + 1])

\* C39: the prospect history is append-only and linked: a prospect that has
\* a successor is, log included, the same after every step, and in every
\* state a step leads to the log of each prospect but the last ends with a
\* marker with requirements_met false whose revision_id is the id of the
\* prospect after it.
C39_HistoryAppendOnlyLinked ==
    [][\A c \in Calls :
          LET before == Prospects(c)
              after == Prospects(c)'
          IN  /\ \A i \in 1..(Len(before) - 1) :
                    /\ i <= Len(after)
                    /\ after[i] = before[i]
              /\ \A i \in 1..(Len(after) - 1) : HandsOver(after, i)]_vars

\* a history of three prospects, the last one with verdicts in its log
C39_Witness ==
    \E c \in Calls :
        /\ Len(Prospects(c)) = 3
        /\ Len(Log(Prospects(c)[3])) >= 1
        /\ HandsOver(Prospects(c), 1)
        /\ HandsOver(Prospects(c), 2)

Flagged(c) == Get(response[c], "should_stop", FALSE)

\* the call c begins in this step
Begins(c) == pc[c] = "idle" /\ pc'[c] # "idle"

====
